---- MODULE Spec2Model ----
(***************************************************************************)
(* A model of the traffic simulation service: the websocket session        *)
(* (api/main.py), its two background tasks (tick loop and agent setter)     *)
(* and the DriveGraphEnv they drive (api/services/traffic.py): tile         *)
(* loading, traffic lights, the agent pool, path planning and the stepper.  *)
(*                                                                         *)
(* Lengths are integers in units of 1/250470000 degree, the coarsest unit   *)
(* in which both one tick's displacement at 1 kph (1/400752 degree) and the *)
(* 4th decimal place of a degree are whole numbers.                         *)
(***************************************************************************)
EXTENDS Integers, Sequences, FiniteSets, TLC

\* ------------------------------------------------------------------ units
\* traffic.py:696-699: kph -> m/s -> degrees per tick, 1 degree = 111.32 km:
\* kph * 1000 / 3600 / 111320 degree = kph * 625 units.
MaxSpeedDegrees(speed_limit_kph) == speed_limit_kph * 625

\* traffic.py:695: edge_data.get('speed_kph', 30); 0 stands for "no attribute".
DEFAULT_SPEED_KPH == 30

SpeedLimitKph(attr) == IF attr = 0 THEN DEFAULT_SPEED_KPH ELSE attr

\* ------------------------------------------------------- constructor defaults
\* traffic.py:71 snap_resolution = 0.05 degree
snap_resolution == 12523500
\* (one degree is 250470000 units)
\* traffic.py:74 max_zoom = 0.5 degree
max_zoom == 125235000
\* traffic.py:69 max_agents (a constructor parameter; the model runs a small pool)
max_agents == 2
\* traffic.py:747 for _ in range(20)
PLAN_ATTEMPTS == 20
\* traffic.py:436-437 np.random.randint(20, 40): low inclusive, high exclusive
CYCLE_LOW == 20
CYCLE_HIGH == 40

\* ------------------------------------------------------------------ bounds
\* agent ids handed out per simulation instance
MaxAgentIds == 4
\* tasks created per session
MaxTasks == 3
\* largest agent count a request asks for
MaxRequest == 3
\* ticks counted by the light specification
MaxSteps == 105

\* ------------------------------------------------- the map-data provider's world
\* What ox.graph_from_bbox / ox.features_from_bbox answer from: five nodes on
\* one meridian, two in the first grid square and three in the one north of it.
WorldNodes == 1..5

WorldPos(n) ==
    CASE n = 1 -> <<625, 625>>
      [] n = 2 -> <<1875, 625>>
      [] n = 3 -> <<snap_resolution + 625, 625>>
      [] n = 4 -> <<snap_resolution + 1875, 625>>
      [] n = 5 -> <<snap_resolution + 2500, 625>>

\* directed edges u -> v
WorldEdges == {<<1, 2>>, <<3, 4>>, <<4, 5>>}

\* the 'speed_kph' attribute of an edge; 0: the edge carries none
WorldSpeedKph(e) == IF e = <<3, 4>> THEN 1 ELSE 0

\* the 'length' attribute (metres, rounded), the weight of shortest_path
WorldLength(e) == IF e = <<4, 5>> THEN 2 ELSE 3

\* nodes next to which OSM has a highway=traffic_signals point
WorldSignalNodes == {2, 4}

\* ------------------------------------------------------------ bounds and tiles
Bounds(minLat, maxLat, minLng, maxLng) ==
    [minLat |-> minLat, maxLat |-> maxLat, minLng |-> minLng, maxLng |-> maxLng]

Min(a, b) == IF a < b THEN a ELSE b

\* math.floor(x / r) * r and math.ceil(x / r) * r on whole units
FloorTo(x, r) == (x \div r) * r
CeilTo(x, r) == IF x % r = 0 THEN x ELSE ((x \div r) + 1) * r

\* traffic.py:125-131: the clamp _get_required_tile_bounds applies in place
ClampBounds(b) ==
    LET lat_span == b.maxLat - b.minLat
        lng_span == b.maxLng - b.minLng
    IN  IF lat_span > max_zoom \/ lng_span > max_zoom
        THEN [b EXCEPT !.maxLat = b.minLat + Min(lat_span, max_zoom),
                       !.maxLng = b.minLng + Min(lng_span, max_zoom)]
        ELSE b

_generate_snapped_bounds(b, res) ==
    LET lo_lat == FloorTo(b.minLat, res)
        hi_lat == CeilTo(b.maxLat, res)
        lo_lng == FloorTo(b.minLng, res)
        hi_lng == CeilTo(b.maxLng, res)
    IN  Bounds(lo_lat, IF hi_lat <= lo_lat THEN lo_lat + res ELSE hi_lat,
               lo_lng, IF hi_lng <= lo_lng THEN lo_lng + res ELSE hi_lng)

\* the single tile of a viewport
_get_required_tile_bounds(b) == _generate_snapped_bounds(ClampBounds(b), snap_resolution)

\* f"{x:.4f}": the sign of x ("-" for every negative x, "-0.0000" included)
\* and its magnitude rounded to the 4th decimal place (25047 units), ties to
\* even
Format4Mutant(x) == <<IF x < 0 THEN 1 ELSE 0, (IF x < 0 THEN -x ELSE x) \div 25047>>
Format4(x) ==
    LET a == IF x < 0 THEN -x ELSE x
        q == a \div 25047
        r == a % 25047
    IN  <<IF x < 0 THEN 1 ELSE 0,
          IF 2 * r > 25047 \/ (2 * r = 25047 /\ q % 2 = 1) THEN q + 1 ELSE q>>

\* the cache file name: the hash of the four formatted numbers, modelled as
\* the formatted numbers themselves (sha1 taken as injective)
_get_cache_path(b) ==
    <<Format4(b.minLat), Format4(b.maxLat), Format4(b.minLng), Format4(b.maxLng)>>

InBounds(pos, b) ==
    /\ b.minLat <= pos[1] /\ pos[1] <= b.maxLat
    /\ b.minLng <= pos[2] /\ pos[2] <= b.maxLng

\* ox.graph_from_bbox(bbox): the world's nodes inside the box and the edges
\* between them
ProviderNodes(tb) == {n \in WorldNodes : InBounds(WorldPos(n), tb)}
ProviderEdges(tb) == {e \in WorldEdges : e[1] \in ProviderNodes(tb) /\ e[2] \in ProviderNodes(tb)}

\* the viewports a client sends: inside the first grid square, and one that
\* spans it and its northern neighbour
ViewA == Bounds(100, 3000, 100, 3000)
ViewB == Bounds(snap_resolution + 100, snap_resolution + 3000, 100, 3000)
ViewAB == Bounds(100, snap_resolution + 3000, 100, 3000)
Viewports == {ViewA, ViewB, ViewAB}

\* ------------------------------------------------------------------ state
VARIABLES
    handler,            \* websocket_endpoint_traffic: where it stands, its locals
    env,                \* main.py:34 env: FALSE is None
    simulation_task,    \* main.py:35: a task id, 0 is None
    agent_setter_task,  \* main.py:36: a task id, 0 is None
    tasks,              \* every task the session created, by task id
    disk,               \* cache_dir: cache path -> file content
    bounds,             \* self.bounds
    show_traffic_lights,
    num_agents,
    steps,              \* self.steps, counted as far as a specification asks
    next_agent_id,
    tile_graphs,        \* self.tile_graphs: cache path -> tile data or None
    node_positions,     \* self.node_positions: node id -> the array object held
    valid_vehicle_node_ids,
    drive_graph_proj,   \* the merged graph: [nodes, edges]
    traffic_signals,
    has_light_attrs,    \* hasattr(self, 'traffic_light_timers')
    traffic_light_states,
    traffic_light_timers,
    traffic_light_cycle_times,
    agents,             \* keys of self.agents
    active_agents,
    objs,               \* the AgentState objects alive, by agent id
    arrays,             \* the node-position arrays alive: array -> [lat, lng]
    log                 \* what the last step did, for the properties

sessionVars == <<handler, env, simulation_task, agent_setter_task, tasks>>
graphVars == <<bounds, show_traffic_lights, tile_graphs, node_positions,
               valid_vehicle_node_ids, drive_graph_proj, traffic_signals>>
lightVars == <<has_light_attrs, traffic_light_states, traffic_light_timers,
               traffic_light_cycle_times>>
poolVars == <<num_agents, steps, next_agent_id, agents, active_agents, objs, arrays>>
vars == <<sessionVars, disk, graphVars, lightVars, poolVars, log>>

\* ---------------------------------------------------------------- values
\* an agent's own np.zeros(2) array (never written in place), named as a
\* tile's arrays are, under node 0, which no tile has
ZEROS == <<<<<<0, 0>>, <<0, 0>>, <<0, 0>>, <<0, 0>>>>, 0>>

EmptyGraph == [nodes |-> {}, edges |-> {}]
EmptyFcn == [x \in {} |-> 0]

Abs(x) == IF x < 0 THEN -x ELSE x
Sign(x) == IF x < 0 THEN -1 ELSE IF x > 0 THEN 1 ELSE 0

\* np.linalg.norm of a vector along one axis (the world's nodes share a
\* meridian, so every direction vector has one zero component)
Norm(v) == Abs(v[1]) + Abs(v[2])

\* (direction_vector / distance) * max_speed_degrees, same proviso
Scaled(v, speed) == <<Sign(v[1]) * speed, Sign(v[2]) * speed>>

\* traffic.py:609-616
NewAgentState ==
    [position |-> ZEROS, velocity |-> <<0, 0>>, goal |-> ZEROS,
     path |-> <<>>, path_index |-> 0]

NoPlan == [agent |-> -1, nodes |-> {}, graph |-> EmptyGraph]

\* the value an array reference holds
ArrayValue(arr, ref) == IF ref = ZEROS THEN <<0, 0>> ELSE arr[ref]

\* get_node_position(node_id): the array object, or <<>> for None
get_node_position(P, n) ==
    IF n \in DOMAIN P.node_positions THEN P.node_positions[n] ELSE <<>>

\* traffic.py:566-581
get_nodes_in_bounds(P, b) ==
    {n \in DOMAIN P.node_positions :
        n \in P.valid_vehicle_node_ids /\ InBounds(P.arrays[P.node_positions[n]], b)}

\* traffic.py:735-742: the candidate origin/goal pool
NodesInViewport(P) ==
    LET inView == get_nodes_in_bounds(P, P.bounds)
    IN  IF Cardinality(inView) < 2 THEN P.valid_vehicle_node_ids ELSE inView

\* -------------------------------------------------------------- shortest path
RECURSIVE SimplePaths(_, _, _, _)
SimplePaths(G, s, t, seen) ==
    IF s = t THEN {<<t>>}
    ELSE UNION {{<<s>> \o p : p \in SimplePaths(G, w, t, seen \cup {s})} :
                w \in {x \in G.nodes \ (seen \cup {s}) : <<s, x>> \in G.edges}}

RECURSIVE PathWeight(_)
PathWeight(p) ==
    IF Len(p) < 2 THEN 0 ELSE WorldLength(<<p[1], p[2]>>) + PathWeight(Tail(p))

\* nx.shortest_path(G, source, target, weight='length'); <<>> stands for the
\* NetworkXNoPath and NodeNotFound exceptions
ShortestPath(G, s, t) ==
    IF s \notin G.nodes \/ t \notin G.nodes THEN <<>>
    ELSE LET ps == SimplePaths(G, s, t, {})
         IN  IF ps = {} THEN <<>>
             ELSE CHOOSE p \in ps : \A r \in ps : PathWeight(p) <= PathWeight(r)

\* ------------------------------------------------------------- the agent pool
\* The instance as a coroutine sees it between two suspensions: the pool it
\* changes (agents/active_agents: the dict keys; objs; arrays; next_agent_id),
\* the graph and lights it reads, and whether it ran out of the model's ids.
Instance(b, np, valid, G, signals, lights, ag, act, ob, arr, next) ==
    [bounds |-> b, node_positions |-> np, valid_vehicle_node_ids |-> valid,
     drive_graph_proj |-> G, traffic_signals |-> signals, lights |-> lights,
     agents |-> ag, active_agents |-> act, objs |-> ob, arrays |-> arr,
     next_agent_id |-> next, overflow |-> FALSE]

PoolNow ==
    Instance(bounds, node_positions, valid_vehicle_node_ids, drive_graph_proj,
             traffic_signals, traffic_light_states, agents, active_agents, objs,
             arrays, next_agent_id)

CanPlan(P) == Cardinality(NodesInViewport(P)) >= 2

\* traffic.py:628-634
RemoveAgentMutant(P, agent_id) == P
remove_agent(P, agent_id) ==
    IF agent_id \in P.agents
    THEN [P EXCEPT !.agents = @ \ {agent_id}, !.active_agents = @ \ {agent_id}]
    ELSE P

\* traffic.py:601-619: add_agent up to its call of respawn_agent;
\* id -1 is the None it returns at the cap
AddAgentMutant(P) ==
    IF P.next_agent_id >= MaxAgentIds
    THEN [P |-> [P EXCEPT !.overflow = TRUE], id |-> -1]
    ELSE [P |-> [P EXCEPT !.agents = @ \cup {P.next_agent_id},
                          !.active_agents = @ \cup {P.next_agent_id},
                          !.objs = (P.next_agent_id :> NewAgentState) @@ @,
                          !.next_agent_id = @ + 1],
          id |-> P.next_agent_id]

AddAgentReusesIdMutant(P) ==
    IF Cardinality(P.agents) >= max_agents THEN [P |-> P, id |-> -1]
    ELSE [P |-> [P EXCEPT !.agents = @ \cup {Cardinality(P.agents)},
                          !.active_agents = @ \cup {Cardinality(P.agents)},
                          !.objs = (Cardinality(P.agents) :> NewAgentState) @@ @],
          id |-> Cardinality(P.agents)]

AddAgent(P) ==
    IF Cardinality(P.agents) >= max_agents THEN [P |-> P, id |-> -1]
    ELSE IF P.next_agent_id >= MaxAgentIds
    THEN [P |-> [P EXCEPT !.overflow = TRUE], id |-> -1]
    ELSE [P |-> [P EXCEPT !.agents = @ \cup {P.next_agent_id},
                          !.active_agents = @ \cup {P.next_agent_id},
                          !.objs = (P.next_agent_id :> NewAgentState) @@ @,
                          !.next_agent_id = @ + 1],
          id |-> P.next_agent_id]

\* respawn_agent's first await: the planning it suspends in
PlanFor(P, agent_id) ==
    [agent |-> agent_id, nodes |-> NodesInViewport(P), graph |-> P.drive_graph_proj]

\* traffic.py:740-742: fewer than two candidates, no path, no suspension
\* (the fresh agent's path is None already)
NoCandidates(P, agent_id) == [P EXCEPT !.objs[agent_id].path = <<>>]

\* traffic.py:764-782: the end of respawn_agent, path <<>> when every attempt failed
FinishRespawnMutant(P, agent_id, new_path) ==
    IF new_path = <<>> THEN remove_agent(P, agent_id) ELSE P
FinishRespawn(P, agent_id, new_path) ==
    IF new_path = <<>> THEN [P EXCEPT !.objs[agent_id].path = <<>>]
    ELSE LET start_pos == get_node_position(P, new_path[1])
             goal_pos == get_node_position(P, new_path[Len(new_path)])
             planned == [P.objs[agent_id] EXCEPT !.path = new_path, !.path_index = 0]
         IN  IF start_pos # <<>> /\ goal_pos # <<>>
             THEN LET placed == [planned EXCEPT !.position = start_pos, !.goal = goal_pos]
                  IN  IF \A i \in 1..Len(new_path) : get_node_position(P, new_path[i]) # <<>>
                      THEN [P EXCEPT !.objs[agent_id] = placed]
                      ELSE [P EXCEPT !.objs[agent_id] = [placed EXCEPT !.path = <<>>]]
             ELSE [P EXCEPT !.objs[agent_id] = [planned EXCEPT !.path = <<>>]]

\* traffic.py:711: the next node is a signal and its light is red
AtRedMutant(P, next_node_id) == FALSE
AtRed(P, next_node_id) ==
    /\ next_node_id \in P.traffic_signals
    /\ next_node_id \in DOMAIN P.lights
    /\ P.lights[next_node_id] = "red"

\* traffic.py:686-726 without the removal: one agent's move along its edge
Advance(P, agent_id) ==
    LET agent == P.objs[agent_id]
        current_node_id == agent.path[agent.path_index + 1]
        next_node_id == agent.path[agent.path_index + 2]
        edge == <<current_node_id, next_node_id>>
        max_speed_degrees == MaxSpeedDegrees(SpeedLimitKph(WorldSpeedKph(edge)))
        current_node_pos == get_node_position(P, current_node_id)
        next_node_pos == get_node_position(P, next_node_id)
    IN  IF edge \notin P.drive_graph_proj.edges
           \/ current_node_pos = <<>> \/ next_node_pos = <<>>
        THEN [P |-> P, arrived |-> FALSE]
        ELSE
        LET here == ArrayValue(P.arrays, agent.position)
            there == P.arrays[next_node_pos]
            direction_vector == <<there[1] - here[1], there[2] - here[2]>>
            distance == Norm(direction_vector)
            red == AtRed(P, next_node_id)
            velocity == IF red THEN <<0, 0>>
                        ELSE IF distance > 0 THEN Scaled(direction_vector, max_speed_degrees)
                        ELSE agent.velocity
        IN  IF distance < max_speed_degrees
            THEN [P |-> [P EXCEPT !.objs[agent_id] =
                            [agent EXCEPT !.velocity = velocity,
                                          !.position = next_node_pos,
                                          !.path_index = @ + 1]],
                  arrived |-> agent.path_index + 1 >= Len(agent.path) - 1]
            ELSE \* agent.position += agent.velocity writes the array in place
                 [P |-> [P EXCEPT !.objs[agent_id].velocity = velocity,
                                  !.arrays[agent.position] =
                                      <<here[1] + velocity[1], here[2] + velocity[2]>>],
                  arrived |-> FALSE]

\* what a coroutine hands back when it suspends or ends
Outcome(P, pc, queue, cur, todo, plan) ==
    [P |-> P, pc |-> pc, queue |-> queue, cur |-> cur, todo |-> todo, plan |-> plan]

RECURSIVE RunAgents(_, _)

\* traffic.py:724: `await self.add_agent()` after an arrival; r is add_agent up
\* to its await of respawn_agent
AfterArrival(r, agent_id, rest) ==
    IF r.id # -1 /\ CanPlan(r.P)
    THEN Outcome(r.P, "add", rest, agent_id, 0, PlanFor(r.P, r.id))
    ELSE RunAgents(r.P, rest)

\* traffic.py:684-687: the same await for an agent found at its path's end;
\* control then falls through to path[path_index + 1], an IndexError
AfterEndOfPath(r, agent_id, rest) ==
    IF r.id # -1 /\ CanPlan(r.P)
    THEN Outcome(r.P, "add_at_end", rest, agent_id, 0, PlanFor(r.P, r.id))
    ELSE Outcome(r.P, "raised", <<>>, -1, 0, NoPlan)

\* traffic.py:720-726: m is the agent's move
AfterMoveKeepsArrivedMutant(m, agent_id, rest) == RunAgents(m.P, rest)
AfterMove(m, agent_id, rest) ==
    IF m.arrived
    THEN AfterArrival(AddAgent(remove_agent(m.P, agent_id)), agent_id, rest)
    ELSE RunAgents(m.P, rest)

\* traffic.py:682-726 for one agent that has a path
FromPath(P, agent_id, rest) ==
    IF P.objs[agent_id].path_index >= Len(P.objs[agent_id].path) - 1
    THEN AfterEndOfPath(AddAgent(remove_agent(P, agent_id)), agent_id, rest)
    ELSE AfterMove(Advance(P, agent_id), agent_id, rest)

\* traffic.py:672-680: the loop over the snapshot, up to its next suspension
RunAgents(P, queue) ==
    IF queue = <<>> THEN Outcome(P, "sleep", <<>>, -1, 0, NoPlan)
    ELSE IF Head(queue) \notin P.agents THEN RunAgents(P, Tail(queue))
    ELSE IF P.objs[Head(queue)].path # <<>> THEN FromPath(P, Head(queue), Tail(queue))
    ELSE IF CanPlan(P)
    THEN Outcome(P, "respawn", Tail(queue), Head(queue), 0, PlanFor(P, Head(queue)))
    ELSE RunAgents(NoCandidates(P, Head(queue)), Tail(queue))

\* `await self.add_agent()` repeated todo times (reset, set_num_agents), up to
\* its next suspension
RECURSIVE RunAdds(_, _)

AfterAdd(r, todo) ==
    IF r.id # -1 /\ CanPlan(r.P)
    THEN Outcome(r.P, "adding", <<>>, -1, todo - 1, PlanFor(r.P, r.id))
    ELSE RunAdds(r.P, todo - 1)

RunAdds(P, todo) ==
    IF todo <= 0 THEN Outcome(P, "done", <<>>, -1, 0, NoPlan)
    ELSE AfterAdd(AddAgent(P), todo)

\* ---------------------------------------------------------------- tile loading
\* A tile's data: the graph of one snapped box and, per node, the array that
\* holds its position. None is the tile whose load failed. The arrays of
\* tile `key` are named <<key, node>>.
NoneTile == [status |-> "none", nodes |-> {}, edges |-> {}]
TileData(nodes, edges) == [status |-> "data", nodes |-> nodes, edges |-> edges]

\* cache file contents: a zero-length file, bytes that are not JSON, or a
\* serialized tile
ZeroFile == [kind |-> "zero", nodes |-> {}, edges |-> {}]
CorruptFile == [kind |-> "corrupt", nodes |-> {}, edges |-> {}]
TileFile(nodes, edges) == [kind |-> "tile", nodes |-> nodes, edges |-> edges]

\* traffic.py:66 force_osm_refresh: main.py never passes it
ForceRefreshMutant == TRUE
force_osm_refresh == FALSE

\* what the provider call and the processing after it come to
ProviderOutcomes == {"data", "nodata", "raises", "unprocessable"}

\* traffic.py:256: the cache branch is taken
CacheUsableMutant(dsk, cache_path) == FALSE
CacheUsable(dsk, cache_path) ==
    /\ ~force_osm_refresh
    /\ cache_path \in DOMAIN dsk
    /\ dsk[cache_path].kind # "zero"

\* traffic.py:259-267 and what follows the except clause: a cache file that
\* does not deserialize
OnCacheError(dsk, tile_bounds, prov) ==
    \* the fetch is the else branch of the `if` at 256, so control leaves the
    \* function here: it returns None
    [tile |-> NoneTile, disk |-> dsk, fetched |-> FALSE, raised |-> FALSE]

\* traffic.py:248-414. prov is the provider's outcome should it be called.
\* Gives the tile (or None), the disk afterwards, whether the provider was
\* called and whether an exception left the function.
_load_tile_graph(dsk, tile_bounds, prov) ==
    LET cache_path == _get_cache_path(tile_bounds)
    IN  IF CacheUsable(dsk, cache_path)
        THEN IF dsk[cache_path].kind = "corrupt"
             THEN OnCacheError(dsk, tile_bounds, prov)
             ELSE [tile |-> TileData(dsk[cache_path].nodes, dsk[cache_path].edges),
                   disk |-> dsk, fetched |-> FALSE, raised |-> FALSE]
        ELSE CASE prov = "raises" ->
                    \* 318-326 catch InsufficientResponseError only
                    [tile |-> NoneTile, disk |-> dsk, fetched |-> TRUE, raised |-> TRUE]
               [] prov = "nodata" ->
                    [tile |-> TileData({}, {}),
                     disk |-> (cache_path :> TileFile({}, {})) @@ dsk,
                     fetched |-> TRUE, raised |-> FALSE]
               [] prov = "unprocessable" ->
                    [tile |-> NoneTile, disk |-> dsk, fetched |-> TRUE, raised |-> FALSE]
               [] prov = "data" ->
                    [tile |-> TileData(ProviderNodes(tile_bounds), ProviderEdges(tile_bounds)),
                     disk |-> (cache_path :>
                                 TileFile(ProviderNodes(tile_bounds), ProviderEdges(tile_bounds)))
                              @@ dsk,
                     fetched |-> TRUE, raised |-> FALSE]

\* ox.nearest_nodes(G, X, Y) for the signal point at world node w: the graph
\* node closest to it (by the graph's own x, y attributes)
NearestNode(G, w) ==
    CHOOSE n \in G.nodes : \A m \in G.nodes :
        Norm(<<WorldPos(n)[1] - WorldPos(w)[1], WorldPos(n)[2] - WorldPos(w)[2]>>)
            <= Norm(<<WorldPos(m)[1] - WorldPos(w)[1], WorldPos(m)[2] - WorldPos(w)[2]>>)

\* traffic.py:479-515: the signals to add for viewport b; features is what
\* ox.features_from_bbox does: "points", or "fails" (any exception, caught)
_load_traffic_signals_for_bbox(G, b, features) ==
    LET points == {w \in WorldSignalNodes : InBounds(WorldPos(w), b)}
    IN  IF features = "points" /\ points # {} /\ G.nodes # {}
        THEN {NearestNode(G, w) : w \in points}
        ELSE {}

\* traffic.py:141, 158: the key of the single required tile
TileKey(b) == _get_cache_path(_generate_snapped_bounds(b, snap_resolution))

\* traffic.py:160: the tile is not in tile_graphs, or is there as None
MustLoadMutant(tg, tile_key) == tile_key \notin DOMAIN tg
MustLoad(tg, tile_key) == tile_key \notin DOMAIN tg \/ tg[tile_key].status = "none"

\* traffic.py:166-209: the graph composed from the tiles that hold one
MergedGraph(tile_data) ==
    IF tile_data.status = "data" /\ tile_data.nodes # {}
    THEN [nodes |-> tile_data.nodes, edges |-> tile_data.edges]
    ELSE EmptyGraph

\* traffic.py:151-154, 178-243: the instance's graph fields rebuilt from the
\* merged graph
Rebuilt(tile_key, G, b, show, features) ==
    [node_positions |-> [n \in G.nodes |-> <<tile_key, n>>],
     valid_vehicle_node_ids |-> G.nodes,
     drive_graph_proj |-> G,
     traffic_signals |-> IF show THEN _load_traffic_signals_for_bbox(G, b, features)
                         ELSE {}]

\* traffic.py:160-162: the tile is loaded and kept (None included)
WithLoaded(tg, arr, tile_key, loaded, b, show, features) ==
    [raised |-> loaded.raised, fetched |-> loaded.fetched, loaded |-> TRUE,
     tile_graphs |-> (tile_key :> loaded.tile) @@ tg,
     disk |-> loaded.disk,
     arrays |-> [c \in {<<tile_key, n>> : n \in loaded.tile.nodes} |-> WorldPos(c[2])]
                @@ arr]
    @@ Rebuilt(tile_key, MergedGraph(loaded.tile), b, show, features)

\* traffic.py:137-246. tg, dsk, arr: tile_graphs, disk and arrays before; b:
\* self.bounds (clamped already); show: self.show_traffic_lights.
_load_and_merge_graph_tiles(tg, dsk, arr, b, show, prov, features) ==
    IF MustLoad(tg, TileKey(b))
    THEN WithLoaded(tg, arr, TileKey(b),
                    _load_tile_graph(dsk, _generate_snapped_bounds(b, snap_resolution),
                                     prov),
                    b, show, features)
    ELSE [raised |-> FALSE, fetched |-> FALSE, loaded |-> FALSE, tile_graphs |-> tg,
          disk |-> dsk, arrays |-> arr]
         @@ Rebuilt(TileKey(b), MergedGraph(tg[TileKey(b)]), b, show, features)

\* the cycle lengths np.random.randint(20, 40) can draw
CycleRange == CYCLE_LOW..(CYCLE_HIGH - 1)
CycleTimes(draws) == [red : draws, green : draws]

\* traffic.py:664-670: one tick of every light
AdvanceLightsMutant(states, timers, cycle_times) ==
    LET expired(n) == timers[n] + 1 > cycle_times[n][states[n]]
    IN  [states |-> [n \in DOMAIN timers |->
                        IF expired(n) THEN (IF states[n] = "red" THEN "green" ELSE "red")
                        ELSE states[n]],
         timers |-> [n \in DOMAIN timers |-> IF expired(n) THEN 0 ELSE timers[n] + 1]]

AdvanceLights(states, timers, cycle_times) ==
    LET expired(n) == timers[n] + 1 >= cycle_times[n][states[n]]
    IN  [states |-> [n \in DOMAIN timers |->
                        IF expired(n) THEN (IF states[n] = "red" THEN "green" ELSE "red")
                        ELSE states[n]],
         timers |-> [n \in DOMAIN timers |-> IF expired(n) THEN 0 ELSE timers[n] + 1]]

\* ------------------------------------------------------------------ coroutines
\* A coroutine (the handler, a tick loop, an agent setter): where it is
\* suspended (pc) and the locals it resumes with.
\*   kind    "handler" | "sim" | "setter"
\*   status  "running" | "cancelling" (cancel() called, CancelledError not yet
\*           thrown into it) | "done"
\*   pc      handler: "recv", "adding" (in reset), "closed"
\*           sim: "new", "sleep", "respawn" (678), "add" (724), "add_at_end" (684),
\*                "raised", "cancelled"
\*           setter: "new", "adding" (646), "done", "cancelled"
Coroutine(kind, pc, target) ==
    [kind |-> kind, status |-> "running", pc |-> pc, queue |-> <<>>, cur |-> -1,
     todo |-> 0, plan |-> NoPlan, target |-> target]

EndedMutant(t, pc) == [t EXCEPT !.pc = pc]
Ended(t, pc) ==
    [t EXCEPT !.status = "done", !.pc = pc, !.queue = <<>>, !.cur = -1, !.todo = 0,
              !.plan = NoPlan, !.target = 0]

Planning == {"respawn", "add", "add_at_end", "adding"}

\* traffic.py:747-762, the attempt loop. A failed attempt changes nothing but
\* the loop counter, so the loop is resumed once, at the attempt that ends
\* it: attempts 1..attempt-1 failed, and this one draws (start, goal). The
\* first attempt searched the graph captured when the coroutine suspended,
\* a later one the graph that is current.
SomeDrawFails(G, nodes) ==
    \E a \in nodes : \E b \in nodes \ {a} : Len(ShortestPath(G, a, b)) <= 1

AttemptPath(P, plan, attempt, start_node_id, goal_node_id) ==
    ShortestPath(IF attempt = 1 THEN plan.graph ELSE P.drive_graph_proj,
                 start_node_id, goal_node_id)

LoopEndsAt(P, plan, attempt, start_node_id, goal_node_id) ==
    /\ attempt \in 1..PLAN_ATTEMPTS
    /\ start_node_id \in plan.nodes
    /\ goal_node_id \in plan.nodes \ {start_node_id}
    /\ attempt > 1 => SomeDrawFails(plan.graph, plan.nodes)
    /\ attempt > 2 => SomeDrawFails(P.drive_graph_proj, plan.nodes)
    /\ \/ Len(AttemptPath(P, plan, attempt, start_node_id, goal_node_id)) > 1
       \/ attempt = PLAN_ATTEMPTS

\* the coroutine goes on from the end of respawn_agent to its next suspension
Continue(t, P) ==
    CASE t.pc = "respawn" ->
            IF P.objs[t.cur].path = <<>> THEN RunAgents(P, t.queue)
            ELSE FromPath(P, t.cur, t.queue)
      [] t.pc = "add" -> RunAgents(P, t.queue)
      [] t.pc = "add_at_end" -> Outcome(P, "raised", <<>>, -1, 0, NoPlan)
      [] t.pc = "adding" -> RunAdds(P, t.todo)

\* the coroutine's record after it ran to `out`
Suspended(t, out) ==
    IF out.pc \in {"raised", "done"} /\ t.kind # "handler"
    THEN Ended(t, out.pc)
    ELSE [t EXCEPT !.pc = out.pc, !.queue = out.queue, !.cur = out.cur,
                   !.todo = out.todo, !.plan = out.plan, !.target = 0]

\* a coroutine suspended in planning is resumed with the loop's result:
\* new_path, <<>> when every attempt failed
Resume(t, P, new_path) == Continue(t, FinishRespawn(P, t.plan.agent, new_path))

\* traffic.py:758-762 and main.py:202: the except clauses around the await in
\* respawn_agent catch NetworkXNoPath, NodeNotFound and Exception;
\* asyncio.CancelledError derives from BaseException
RespawnCatchesMutant(exc) == TRUE
RespawnCatches(exc) == exc \in {"NetworkXNoPath", "NodeNotFound", "Exception"}

\* task.cancel(): main.py:49-52, 153-154, 164-169, 174-177
CancelMutant(ts, tid) == ts
CancelTickLoopOnlyMutant(ts, tid) ==
    IF tid # 0 /\ ts[tid].status = "running" /\ ts[tid].kind = "sim"
    THEN [ts EXCEPT ![tid].status = "cancelling"]
    ELSE ts
CancelResizeOnlyMutant(ts, tid) ==
    IF tid # 0 /\ ts[tid].status = "running" /\ ts[tid].kind = "setter"
    THEN [ts EXCEPT ![tid].status = "cancelling"]
    ELSE ts
Cancel(ts, tid) ==
    IF tid # 0 /\ ts[tid].status = "running"
    THEN [ts EXCEPT ![tid].status = "cancelling"]
    ELSE ts

\* the AgentState objects something still refers to
Referenced(ag, ts, h) ==
    ag \cup {ts[i].cur : i \in DOMAIN ts} \cup {ts[i].plan.agent : i \in DOMAIN ts}
       \cup {h.cur, h.plan.agent}

Collect(ob, ag, ts, h) == [i \in DOMAIN ob \cap Referenced(ag, ts, h) |-> ob[i]]

Perms(S) == {q \in [1..Cardinality(S) -> S] : \A i, j \in DOMAIN q : q[i] = q[j] => i = j}

\* the pool after a coroutine's run
SetPool(P, ts, h) ==
    /\ ~P.overflow
    /\ agents' = P.agents
    /\ active_agents' = P.active_agents
    /\ objs' = Collect(P.objs, P.agents, ts, h)
    /\ arrays' = P.arrays
    /\ next_agent_id' = P.next_agent_id

\* ------------------------------------------------------------------- Init
InitWith(dsk) ==
    /\ handler = Coroutine("handler", "recv", 0)
    /\ env = FALSE
    /\ simulation_task = 0
    /\ agent_setter_task = 0
    /\ tasks = <<>>
    /\ disk = dsk
    /\ bounds = Bounds(0, 0, 0, 0)
    /\ show_traffic_lights = TRUE
    /\ num_agents = 0
    /\ steps = 0
    /\ next_agent_id = 0
    /\ tile_graphs = EmptyFcn
    /\ node_positions = EmptyFcn
    /\ valid_vehicle_node_ids = {}
    /\ drive_graph_proj = EmptyGraph
    /\ traffic_signals = {}
    /\ has_light_attrs = FALSE
    /\ traffic_light_states = EmptyFcn
    /\ traffic_light_timers = EmptyFcn
    /\ traffic_light_cycle_times = EmptyFcn
    /\ agents = {}
    /\ active_agents = {}
    /\ objs = EmptyFcn
    /\ arrays = EmptyFcn
    /\ log = [op |-> "accept", tid |-> 0]

\* the session is accepted, the cache directory is empty
Init == InitWith(EmptyFcn)

\* ------------------------------------------------------------ the handler
\* main.py:100 simulation_task = asyncio.create_task(run_simulation(...))
StartSimulation(h, ts) ==
    /\ handler' = [h EXCEPT !.pc = "recv", !.todo = 0, !.plan = NoPlan]
    /\ tasks' = Append(ts, Coroutine("sim", "new", 0))
    /\ simulation_task' = Len(ts) + 1

\* main.py:67, 100: env.reset() ran to `out`, its end or its first suspension
ResetRuns(out, ts) ==
    /\ IF out.pc = "done"
       THEN StartSimulation(Suspended(handler, out), ts)
       ELSE /\ handler' = Suspended(handler, out)
            /\ tasks' = ts
            /\ UNCHANGED simulation_task
    /\ SetPool(out.P, ts, Suspended(handler, out))

\* main.py:61-67: DriveGraphEnv(...) returned; R is what its tile load came to,
\* lit and cy the light states and cycle lengths _initialize_traffic_lights drew
Constructed(vb, R, n, show, lit, cy, ts) ==
    /\ env' = TRUE
    /\ disk' = R.disk
    /\ bounds' = vb
    /\ show_traffic_lights' = show
    /\ tile_graphs' = R.tile_graphs
    /\ node_positions' = R.node_positions
    /\ valid_vehicle_node_ids' = R.valid_vehicle_node_ids
    /\ drive_graph_proj' = R.drive_graph_proj
    /\ traffic_signals' = R.traffic_signals
    /\ has_light_attrs' = show
    /\ traffic_light_states' = lit
    /\ traffic_light_timers' = [x \in DOMAIN lit |-> 0]
    /\ traffic_light_cycle_times' = [x \in DOMAIN lit |-> cy[x]]
    /\ num_agents' = n
    /\ steps' = 0
    /\ ResetRuns(RunAdds(Instance(vb, R.node_positions, R.valid_vehicle_node_ids,
                                  R.drive_graph_proj, R.traffic_signals, lit,
                                  {}, {}, EmptyFcn, R.arrays, 0), n), ts)
    /\ UNCHANGED agent_setter_task
    /\ log' = [op |-> "start", tid |-> 0, fetched |-> R.fetched, loaded |-> R.loaded]

\* traffic.py:416-441: what _initialize_traffic_lights draws for the signals
LightDraws(signals, show, draws) ==
    IF show
    THEN [states : [signals -> {"red", "green"}], cycles : [signals -> CycleTimes(draws)]]
    ELSE {[states |-> EmptyFcn, cycles |-> EmptyFcn]}

Constructing(vb, R, n, show, draws, ts) ==
    IF R.raised
    THEN \* the constructor raises: main.py:178, the handler returns
         /\ handler' = Ended(handler, "closed")
         /\ tasks' = ts
         /\ disk' = R.disk
         /\ log' = [op |-> "start_raised", tid |-> 0, fetched |-> R.fetched,
                    loaded |-> R.loaded]
         /\ UNCHANGED <<env, simulation_task, agent_setter_task, graphVars,
                        lightVars, poolVars>>
    ELSE \E d \in LightDraws(R.traffic_signals, show, draws) :
            Constructed(vb, R, n, show, d.states, d.cycles, ts)

\* main.py:43-100 up to the first suspension of env.reset(): a 'start' request
\* with bounds b, num_agents n and show_traffic_lights show. prov and features
\* are what the provider does if asked, draws the cycle lengths drawn from.
HandleStart(b, n, show, prov, features, draws) ==
    /\ handler.pc = "recv"
    /\ Len(tasks) < MaxTasks
    /\ Constructing(ClampBounds(b),
                    _load_and_merge_graph_tiles(EmptyFcn, disk, EmptyFcn, ClampBounds(b),
                                                show, prov, features),
                    n, show, draws,
                    Cancel(Cancel(tasks, simulation_task), agent_setter_task))

\* env.reset() resumes from an agent's planning, which ends at `attempt`
\* with the draw (start, goal)
HandlerResume(attempt, start_node_id, goal_node_id) ==
    /\ handler.pc = "adding"
    /\ LoopEndsAt(PoolNow, handler.plan, attempt, start_node_id, goal_node_id)
    /\ ResetRuns(Resume(handler, PoolNow,
                        AttemptPath(PoolNow, handler.plan, attempt, start_node_id,
                                    goal_node_id)), tasks)
    /\ log' = [op |-> "reset", tid |-> 0, agent |-> handler.plan.agent,
               path |-> AttemptPath(PoolNow, handler.plan, attempt, start_node_id,
                                    goal_node_id)]
    /\ UNCHANGED <<env, agent_setter_task, disk, graphVars, lightVars, num_agents,
                   steps>>

\* traffic.py:416-441 and 473-475 after a reload that came to R
Reloaded(vb, R, show, d) ==
    /\ disk' = R.disk
    /\ tile_graphs' = R.tile_graphs
    /\ arrays' = R.arrays
    /\ node_positions' = R.node_positions
    /\ valid_vehicle_node_ids' = R.valid_vehicle_node_ids
    /\ drive_graph_proj' = R.drive_graph_proj
    /\ traffic_signals' = R.traffic_signals
    /\ IF show
       THEN /\ has_light_attrs' = TRUE
            /\ traffic_light_states' = d.states
            /\ traffic_light_timers' = [x \in DOMAIN d.states |-> 0]
            /\ traffic_light_cycle_times' = d.cycles
       ELSE UNCHANGED lightVars
    /\ log' = [op |-> "update_bounds", tid |-> 0, fetched |-> R.fetched,
               loaded |-> R.loaded]
    /\ UNCHANGED handler

\* traffic.py:473-474: the tile must be loaded
Reloading(vb, R, show, draws) ==
    IF R.raised
    THEN \* 151-154 ran, the load raised: main.py:178, the handler returns
         /\ handler' = Ended(handler, "closed")
         /\ disk' = R.disk
         /\ node_positions' = EmptyFcn
         /\ valid_vehicle_node_ids' = {}
         /\ traffic_signals' = {}
         /\ log' = [op |-> "update_bounds_raised", tid |-> 0, fetched |-> R.fetched,
                    loaded |-> R.loaded]
         /\ UNCHANGED <<tile_graphs, arrays, drive_graph_proj, lightVars>>
    ELSE \E d \in LightDraws(R.traffic_signals, show, draws) : Reloaded(vb, R, show, d)

\* traffic.py:460-470: the tile is in memory; signals are the ones loaded when
\* the lights went from hidden to shown with no signal known
Covered(signals, show, draws) ==
    /\ IF show /\ ~show_traffic_lights /\ traffic_signals = {}
       THEN /\ traffic_signals' = signals
            /\ \E d \in LightDraws(signals, show, draws) :
                  /\ has_light_attrs' = TRUE
                  /\ traffic_light_states' = d.states
                  /\ traffic_light_timers' = [x \in DOMAIN d.states |-> 0]
                  /\ traffic_light_cycle_times' = d.cycles
       ELSE UNCHANGED <<traffic_signals, lightVars>>
    /\ log' = [op |-> "update_bounds", tid |-> 0, fetched |-> FALSE, loaded |-> FALSE]
    /\ UNCHANGED <<handler, disk, tile_graphs, arrays, node_positions,
                   valid_vehicle_node_ids, drive_graph_proj>>

\* main.py:102-147 and traffic.py:443-477: an 'update_bounds' request with
\* bounds b and show_traffic_lights show
HandleUpdateBounds(b, show, prov, features, draws) ==
    /\ handler.pc = "recv"
    /\ env
    /\ bounds' = ClampBounds(b)
    /\ show_traffic_lights' = show
    /\ IF MustLoad(tile_graphs, TileKey(ClampBounds(b)))
       THEN Reloading(ClampBounds(b),
                      _load_and_merge_graph_tiles(tile_graphs, disk, arrays,
                                                  ClampBounds(b), show, prov, features),
                      show, draws)
       ELSE Covered(_load_traffic_signals_for_bbox(drive_graph_proj, ClampBounds(b),
                                                   features), show, draws)
    /\ UNCHANGED <<env, simulation_task, agent_setter_task, tasks, num_agents, steps,
                   next_agent_id, agents, active_agents, objs>>

\* main.py:149-157: a 'set_num_agents' request carrying num_agents n
HandleSetNumAgents(n) ==
    /\ handler.pc = "recv"
    /\ env
    /\ Len(tasks) < MaxTasks
    /\ tasks' = Append(Cancel(tasks, agent_setter_task), Coroutine("setter", "new", n))
    /\ agent_setter_task' = Len(tasks) + 1
    /\ log' = [op |-> "set_num_agents", tid |-> 0]
    /\ UNCHANGED <<handler, env, simulation_task, disk, graphVars, lightVars, poolVars>>

\* main.py:44-47, 103-106, 150-161: a request without its required field is
\* answered with one error event, and the handler goes back to receiving
RejectedMutant(request, message) ==
    /\ handler.pc = "recv"
    /\ tasks' = Cancel(Cancel(tasks, simulation_task), agent_setter_task)
    /\ log' = [op |-> "rejected", tid |-> 0, request |-> request,
               sent |-> <<"error">>, message |-> message]
    /\ UNCHANGED <<handler, env, simulation_task, agent_setter_task, disk, graphVars,
                   lightVars, poolVars>>
Rejected(request, message) ==
    /\ handler.pc = "recv"
    /\ log' = [op |-> "rejected", tid |-> 0, request |-> request,
               sent |-> <<"error">>, message |-> message]
    /\ UNCHANGED <<sessionVars, disk, graphVars, lightVars, poolVars>>

\* main.py:44-47: 'start' without bounds
HandleStartWithoutBounds == Rejected("start", "Missing bounds")

\* main.py:103-106: 'update_bounds' without bounds
HandleUpdateBoundsWithoutBounds == Rejected("update_bounds", "Missing bounds")

\* main.py:150-161: 'set_num_agents' without num_agents
HandleSetNumAgentsWithoutCount ==
    Rejected("set_num_agents",
             IF env THEN "Missing num_agents" ELSE "Simulation not started")

\* main.py:163-170
HandleStop ==
    /\ handler.pc = "recv"
    /\ tasks' = Cancel(Cancel(tasks, simulation_task), agent_setter_task)
    /\ simulation_task' = 0
    /\ agent_setter_task' = 0
    /\ log' = [op |-> "stop", tid |-> 0]
    /\ UNCHANGED <<handler, env, disk, graphVars, lightVars, poolVars>>

\* main.py:172-177: receive_json raises WebSocketDisconnect
HandleDisconnect ==
    /\ handler.pc = "recv"
    /\ tasks' = Cancel(Cancel(tasks, simulation_task), agent_setter_task)
    /\ handler' = Ended(handler, "closed")
    /\ log' = [op |-> "disconnect", tid |-> 0]
    /\ UNCHANGED <<env, simulation_task, agent_setter_task, disk, graphVars,
                   lightVars, poolVars>>

\* --------------------------------------------------------------- the tasks
\* task tid ran to `out`
TaskRuns(tid, out) ==
    /\ tasks' = [tasks EXCEPT ![tid] = Suspended(@, out)]
    /\ SetPool(out.P, [tasks EXCEPT ![tid] = Suspended(@, out)], handler)

\* traffic.py:664-670: the lights after this tick
TickLights(lit, tid, order) ==
    /\ traffic_light_states' = lit.states
    /\ traffic_light_timers' = lit.timers
    /\ TaskRuns(tid, RunAgents([PoolNow EXCEPT !.lights = lit.states], order))

\* main.py:190-201 and traffic.py:660-728: the tick loop wakes (first run, or
\* from its sleep) and runs env.step() to its first suspension or, with none,
\* through the frame it sends to the sleep that follows. order: list(active_agents).
\* self.steps is counted up to `horizon`: nothing in the program reads it.
SimTick(tid, order, horizon) ==
    /\ tid \in DOMAIN tasks
    /\ tasks[tid].kind = "sim"
    /\ tasks[tid].status = "running"
    /\ tasks[tid].pc \in {"new", "sleep"}
    /\ order \in Perms(active_agents)
    /\ steps' = IF steps < horizon THEN steps + 1 ELSE steps
    /\ IF ~has_light_attrs
       THEN \* 664: AttributeError, caught at main.py:204
            /\ tasks' = [tasks EXCEPT ![tid] = Ended(@, "raised")]
            /\ log' = [op |-> "tick_raised", tid |-> tid, sent |-> <<"error">>]
            /\ UNCHANGED <<lightVars, num_agents, next_agent_id, agents, active_agents,
                           objs, arrays>>
       ELSE /\ TickLights(AdvanceLights(traffic_light_states, traffic_light_timers,
                                        traffic_light_cycle_times), tid, order)
            /\ log' = [op |-> "tick", tid |-> tid, order |-> order]
            /\ UNCHANGED <<has_light_attrs, traffic_light_cycle_times, num_agents>>
    /\ UNCHANGED <<handler, env, simulation_task, agent_setter_task, disk, graphVars>>

\* a task suspended in respawn_agent's await is resumed: the planning ends at
\* `attempt` with the draw (start, goal)
TaskResume(tid, attempt, start_node_id, goal_node_id) ==
    /\ tid \in DOMAIN tasks
    /\ tasks[tid].status = "running"
    /\ tasks[tid].pc \in Planning
    /\ LoopEndsAt(PoolNow, tasks[tid].plan, attempt, start_node_id, goal_node_id)
    /\ TaskRuns(tid, Resume(tasks[tid], PoolNow,
                            AttemptPath(PoolNow, tasks[tid].plan, attempt,
                                        start_node_id, goal_node_id)))
    /\ log' = [op |-> "resume", tid |-> tid, agent |-> tasks[tid].plan.agent,
               queue |-> tasks[tid].queue,
               path |-> AttemptPath(PoolNow, tasks[tid].plan, attempt, start_node_id,
                                    goal_node_id)]
    /\ UNCHANGED <<handler, env, simulation_task, agent_setter_task, disk, graphVars,
                   lightVars, num_agents, steps>>

\* np.random.choice(keys, size=k, replace=False): any k of the keys
Samples(keys, k) == {S \in SUBSET keys : Cardinality(S) = k}

\* traffic.py:649-658: the samples a shrink by -diff may remove
RemovableMutant(ag, diff) == {ag}
Removable(ag, diff) ==
    IF diff >= 0 THEN {{}}
    ELSE IF Abs(diff) > Cardinality(ag) THEN {ag}
    ELSE Samples(ag, Abs(diff))

\* traffic.py:643-658: grow by diff, or remove the sample
ResizeMutant(P, diff, removed) == RunAdds(P, diff - 1)
Resize(P, diff, removed) ==
    IF diff > 0 THEN RunAdds(P, diff)
    ELSE Outcome([P EXCEPT !.agents = @ \ removed, !.active_agents = @ \ removed],
                 "done", <<>>, -1, 0, NoPlan)

\* traffic.py:636-658: the agent setter's first run, to its first suspension;
\* removed: the sample it removes when it shrinks the pool
SetterRun(tid, removed) ==
    /\ tid \in DOMAIN tasks
    /\ tasks[tid].kind = "setter"
    /\ tasks[tid].status = "running"
    /\ tasks[tid].pc = "new"
    /\ num_agents' = tasks[tid].target
    /\ UNCHANGED steps
    /\ removed \in Removable(agents, tasks[tid].target - Cardinality(agents))
    /\ TaskRuns(tid, Resize(PoolNow, tasks[tid].target - Cardinality(agents), removed))
    /\ log' = [op |-> "setter", tid |-> tid, removed |-> removed]
    /\ UNCHANGED <<handler, env, simulation_task, agent_setter_task, disk, graphVars,
                   lightVars>>

\* the event loop throws CancelledError into a task whose cancel() was called
DeliverCancel(tid) ==
    /\ tid \in DOMAIN tasks
    /\ tasks[tid].status = "cancelling"
    /\ IF /\ tasks[tid].pc \in Planning
          /\ RespawnCatches("CancelledError")
          /\ tasks[tid].plan.agent \in DOMAIN objs
       THEN \* swallowed by the attempt loop, which goes on: the task lives on
            \* (in the instance that holds its agent; in a discarded
            \* instance it is a task of this session no more)
            /\ tasks' = [tasks EXCEPT ![tid].status = "running"]
            /\ UNCHANGED <<agents, active_agents, objs, arrays, next_agent_id>>
       ELSE /\ tasks' = [tasks EXCEPT ![tid] = Ended(@, "cancelled")]
            /\ objs' = Collect(objs, agents, tasks', handler)
            /\ UNCHANGED <<agents, active_agents, arrays, next_agent_id>>
    /\ log' = [op |-> "cancelled", tid |-> tid]
    /\ UNCHANGED <<handler, env, simulation_task, agent_setter_task, disk, graphVars,
                   lightVars, num_agents, steps>>

\* ------------------------------------------------------------ specifications
\* the agent counts a client asks for
Requests == -1..MaxRequest

\* the attempts a planning is seen to end at: the first and the last
EndAttempts == {1, PLAN_ATTEMPTS}

\* the steps of the tasks and of a reset in progress
Background ==
    \/ \E j \in EndAttempts, s, g \in WorldNodes : HandlerResume(j, s, g)
    \/ \E tid \in 1..MaxTasks, order \in Perms(active_agents) : SimTick(tid, order, 0)
    \/ \E tid \in 1..MaxTasks, j \in EndAttempts, s, g \in WorldNodes :
            TaskResume(tid, j, s, g)
    \/ \E tid \in 1..MaxTasks, removed \in SUBSET agents : SetterRun(tid, removed)
    \/ \E tid \in 1..MaxTasks : DeliverCancel(tid)

\* One simulation over the first grid square, lights shown and no signal
\* found: a start request, then the tick loop and resize requests.
Next ==
    \/ \E n \in 0..max_agents :
          /\ ~env
          /\ HandleStart(ViewA, n, TRUE, "data", "fails", CycleRange)
    \/ \E n \in Requests : HandleSetNumAgents(n)
    \/ Background

Spec == Init /\ [][Next]_vars

\* The same, scheduled so that a resize and a tick never overlap: a resize is
\* requested while the tick loop rests and no resize is under way, and the
\* tick loop wakes when no resize is under way.
NextAlone ==
    \/ \E n \in 0..max_agents :
          /\ ~env
          /\ HandleStart(ViewA, n, TRUE, "data", "fails", CycleRange)
    \/ \E j \in EndAttempts, s, g \in WorldNodes : HandlerResume(j, s, g)
    \/ \E n \in Requests :
          /\ simulation_task # 0
          /\ \A i \in DOMAIN tasks : tasks[i].pc \in {"new", "sleep", "done"}
          /\ HandleSetNumAgents(n)
    \/ \E tid \in 1..MaxTasks, order \in Perms(active_agents) :
          /\ \A i \in DOMAIN tasks : tasks[i].kind = "setter" => tasks[i].status = "done"
          /\ SimTick(tid, order, 0)
    \/ \E tid \in 1..MaxTasks, j \in EndAttempts, s, g \in WorldNodes :
          TaskResume(tid, j, s, g)
    \/ \E tid \in 1..MaxTasks, removed \in SUBSET agents : SetterRun(tid, removed)

SpecAlone == Init /\ [][NextAlone]_vars

\* A session: simulations started over and again, resized, stopped, and the
\* client gone.
NextSession ==
    \/ \E n \in 0..1 : HandleStart(ViewA, n, TRUE, "data", "fails", CycleRange)
    \/ \E n \in {0, max_agents} : HandleSetNumAgents(n)
    \/ HandleStop
    \/ HandleDisconnect
    \/ Background

SpecSession == Init /\ [][NextSession]_vars

\* the cycle lengths the light specifications draw from
CycleSample == {CYCLE_LOW, 30}

\* One simulation with its signals, and the tick loop counting its ticks.
NextLights ==
    \/ \E b \in Viewports :
          /\ ~env
          /\ HandleStart(b, 0, TRUE, "data", "points", CycleSample)
    \/ \E tid \in 1..MaxTasks : SimTick(tid, <<>>, MaxSteps)

SpecLights == Init /\ [][NextLights]_vars

\* A simulation whose viewport moves and whose lights are toggled.
NextBounds ==
    \/ \E show \in BOOLEAN :
          /\ ~env
          /\ HandleStart(ViewA, 0, show, "data", "points", CycleSample)
    \/ \E b \in Viewports, show \in BOOLEAN :
          HandleUpdateBounds(b, show, "data", "points", CycleSample)
    \/ \E tid \in 1..MaxTasks : SimTick(tid, <<>>, 0)

SpecBounds == Init /\ [][NextBounds]_vars

\* the cache directories a session may find: nothing, or for the first grid
\* square's tile a zero-length file, bytes that do not parse, or a saved tile
Disks ==
    {EmptyFcn} \cup
    {(TileKey(ViewA) :> f) :
        f \in {ZeroFile, CorruptFile,
               TileFile(ProviderNodes(_get_required_tile_bounds(ViewA)),
                        ProviderEdges(_get_required_tile_bounds(ViewA)))}}

InitTiles == \E dsk \in Disks : InitWith(dsk)

\* Tiles loaded from the cache or the provider, whatever the provider does.
NextTiles ==
    \/ \E b \in Viewports, n \in 0..1, prov \in ProviderOutcomes :
          /\ ~env
          /\ HandleStart(b, n, FALSE, prov, "fails", CycleSample)
    \/ \E b \in Viewports, prov \in ProviderOutcomes :
          HandleUpdateBounds(b, FALSE, prov, "fails", CycleSample)
    \/ \E j \in EndAttempts, s, g \in WorldNodes : HandlerResume(j, s, g)

SpecTiles == InitTiles /\ [][NextTiles]_vars

\* The cache directory over a session's simulations: each start constructs a
\* new instance over the directory the earlier ones left.
NextCache ==
    \/ \E b \in Viewports, prov \in ProviderOutcomes :
          HandleStart(b, 0, FALSE, prov, "fails", CycleSample)
    \/ \E b \in Viewports, prov \in ProviderOutcomes :
          HandleUpdateBounds(b, FALSE, prov, "fails", CycleSample)

SpecCache == InitTiles /\ [][NextCache]_vars

\* ------------------------------------------------------- the cache-file write
\* traffic.py:337-340 and 392-396 step by step, inside a 'start' request whose
\* tile has no usable cache file and whose fetch gave `prov`. The handler's
\* locals while it writes: the request, and the directory as it found it.
WriterAt(h, pc, w) == [pc |-> pc, w |-> w] @@ h

\* the serialized tile that is being written
NewFile(b, prov) ==
    IF prov = "nodata" THEN TileFile({}, {})
    ELSE TileFile(ProviderNodes(_get_required_tile_bounds(b)),
                  ProviderEdges(_get_required_tile_bounds(b)))

\* a proper prefix of it: bytes that do not deserialize
PartialFile(b, prov) == [NewFile(b, prov) EXCEPT !.kind = "corrupt"]

\* 337, 392: tempfile.NamedTemporaryFile(delete=False) creates the temporary
\* file, in the system's temporary directory
WriteBegin(b, prov) ==
    /\ handler.pc = "recv"
    /\ Len(tasks) < MaxTasks
    /\ prov \in {"data", "nodata"}
    /\ ~CacheUsable(disk, TileKey(ClampBounds(b)))
    /\ handler' = WriterAt(handler, "dump", [b |-> ClampBounds(b), prov |-> prov,
                                              before |-> disk])
    /\ log' = [op |-> "write_begin", tid |-> 0]
    /\ UNCHANGED <<env, simulation_task, agent_setter_task, tasks, disk, graphVars,
                   lightVars, poolVars>>

\* a step of the write that leaves `content` under the final name (or the
\* directory as it is) and the handler at `pc`
WriteStep(from, pc, dsk) ==
    /\ handler.pc = from
    /\ handler' = [handler EXCEPT !.pc = pc]
    /\ disk' = dsk
    /\ log' = [op |-> pc, tid |-> 0]
    /\ UNCHANGED <<env, simulation_task, agent_setter_task, tasks, graphVars,
                   lightVars, poolVars>>

\* 338-339, 393-394: json.dump into the temporary file, which is closed
WriteDumped == WriteStep("dump", "move", disk)

\* 340, 396: shutil.move(temp_path, cache_path) when os.rename succeeds: the
\* temporary directory is on the cache directory's filesystem
MoveRename ==
    /\ handler.pc = "move"
    /\ WriteStep("move", "written",
                 (TileKey(handler.w.b) :> NewFile(handler.w.b, handler.w.prov)) @@ disk)

\* shutil.move when os.rename raises OSError (another filesystem): the file is
\* copied, the destination opened for writing, filled, and the source unlinked
MoveCopyOpen ==
    /\ handler.pc = "move"
    /\ WriteStep("move", "copy", (TileKey(handler.w.b) :> ZeroFile) @@ disk)

MoveCopyPart ==
    /\ handler.pc = "copy"
    /\ WriteStep("copy", "copy_rest",
                 (TileKey(handler.w.b) :> PartialFile(handler.w.b, handler.w.prov)) @@ disk)

MoveCopyDone ==
    /\ handler.pc = "copy_rest"
    /\ WriteStep("copy_rest", "written",
                 (TileKey(handler.w.b) :> NewFile(handler.w.b, handler.w.prov)) @@ disk)

\* the write is done: _load_tile_graph returns the tile and the request goes
\* on as HandleStart has it, from the directory the request found
WriteReturns ==
    /\ handler.pc = "written"
    /\ Constructing(handler.w.b,
                    _load_and_merge_graph_tiles(EmptyFcn, handler.w.before, EmptyFcn,
                                                handler.w.b, FALSE, handler.w.prov,
                                                "fails"),
                    0, FALSE, CycleSample,
                    Cancel(Cancel(tasks, simulation_task), agent_setter_task))

\* the process is stopped while it writes: what is on the disk stays
WriterInterrupted ==
    /\ handler.pc \in {"dump", "move", "copy", "copy_rest"}
    /\ handler' = Ended(handler, "closed")
    /\ log' = [op |-> "interrupted", tid |-> 0]
    /\ UNCHANGED <<env, simulation_task, agent_setter_task, tasks, disk, graphVars,
                   lightVars, poolVars>>

NextWrite ==
    \/ \E b \in Viewports, prov \in ProviderOutcomes : WriteBegin(b, prov)
    \/ WriteDumped
    \/ MoveRename
    \/ MoveCopyOpen
    \/ MoveCopyPart
    \/ MoveCopyDone
    \/ WriteReturns
    \/ WriterInterrupted

SpecWrite == InitTiles /\ [][NextWrite]_vars

\* ------------------------------------------------------------ snapping alone
\* the viewports snapping is tried on: corners on and off the grid, spans
\* from nothing to beyond max_zoom
SnapMins == {0, 100, snap_resolution, snap_resolution + 100}
SnapSpans == {0, 2900, snap_resolution, max_zoom - 100, max_zoom, max_zoom + 100,
              max_zoom + snap_resolution}
SnapInputs ==
    {Bounds(lat, lat + dlat, lng, lng + dlng) :
        lat \in SnapMins, dlat \in SnapSpans, lng \in {0, 100}, dlng \in SnapSpans}

\* traffic.py:123-135 applied to a viewport a client sent
SnapViewport(b) ==
    /\ log.op = "accept"
    /\ log' = [op |-> "snap", tid |-> 0, input |-> b,
               snapped |-> _get_required_tile_bounds(b)]
    /\ UNCHANGED <<sessionVars, disk, graphVars, lightVars, poolVars>>

\* and applied to the bounds it returned
SnapAgain ==
    /\ log.op = "snap"
    /\ log' = [op |-> "resnap", tid |-> 0, input |-> log.snapped,
               snapped |-> _get_required_tile_bounds(log.snapped)]
    /\ UNCHANGED <<sessionVars, disk, graphVars, lightVars, poolVars>>

NextSnap ==
    \/ \E b \in SnapInputs : SnapViewport(b)
    \/ SnapAgain

SpecSnap == Init /\ [][NextSnap]_vars

\* ------------------------------------------------------------ cache keys alone
\* coordinates about the 4th-decimal grid points -0.0001, 0 and 0.0001 degree
KeyCoords == {-25047 - 12523, -25047, -12524, -12523, -1, 0, 1, 12523, 12524,
              25047 - 1, 25047, 25047 + 12523, 25047 + 12524}
KeyInputs == {Bounds(x, snap_resolution, y, snap_resolution) :
                 x \in KeyCoords, y \in {-1, 0, 1}}

\* traffic.py:111-121 applied to two bounds
KeysOf(b1, b2) ==
    /\ log.op = "accept"
    /\ log' = [op |-> "keys", tid |-> 0, b1 |-> b1, b2 |-> b2,
               key1 |-> _get_cache_path(b1), key2 |-> _get_cache_path(b2)]
    /\ UNCHANGED <<sessionVars, disk, graphVars, lightVars, poolVars>>

NextKeys == \E b1, b2 \in KeyInputs : KeysOf(b1, b2)

SpecKeys == Init /\ [][NextKeys]_vars

\* --------------------------------------------------- the attempt loop by steps
\* traffic.py:747-762 one attempt at a time. A planning carries the number of
\* the attempt it is suspended in (1 until an attempt failed) and the graph
\* that attempt's call of nx.shortest_path was handed.
AttemptOf(plan) == IF "attempt" \in DOMAIN plan THEN plan.attempt ELSE 1

NextAttempt(plan, G) == [attempt |-> AttemptOf(plan) + 1] @@ [plan EXCEPT !.graph = G]

\* what the awaited nx.shortest_path call comes to; fault: the await raises
\* some other Exception
AttemptOutcome(G, start_node_id, goal_node_id, fault) ==
    IF fault THEN "Exception"
    ELSE IF start_node_id \notin G.nodes \/ goal_node_id \notin G.nodes THEN "NodeNotFound"
    ELSE IF ShortestPath(G, start_node_id, goal_node_id) = <<>> THEN "NetworkXNoPath"
    ELSE "path"

AttemptResult(G, start_node_id, goal_node_id, fault) ==
    IF AttemptOutcome(G, start_node_id, goal_node_id, fault) = "path"
    THEN ShortestPath(G, start_node_id, goal_node_id)
    ELSE <<>>

\* traffic.py:747, 755-762: `for _ in range(20)` goes round again after an
\* attempt that gave no path of two nodes or raised what the loop catches
LoopGoesOnMutant(attempt, out, path) ==
    IF out = "path" THEN Len(path) <= 1 ELSE RespawnCatches(out)
LoopGoesOn(attempt, out, path) ==
    /\ attempt < PLAN_ATTEMPTS
    /\ IF out = "path" THEN Len(path) <= 1 ELSE RespawnCatches(out)

AttemptLog(op, tid, plan, out, path) ==
    [op |-> op, tid |-> tid, attempt |-> AttemptOf(plan), outcome |-> out,
     agent |-> plan.agent, path |-> path]

\* the attempt of task tid that drew (start, goal) comes to `out` and `path`
AttemptDone(tid, plan, out, path) ==
    IF LoopGoesOn(AttemptOf(plan), out, path)
    THEN /\ tasks' = [tasks EXCEPT ![tid].plan = NextAttempt(plan, drive_graph_proj)]
         /\ log' = AttemptLog("attempt", tid, plan, out, path)
         /\ UNCHANGED poolVars
    ELSE /\ TaskRuns(tid, Resume(tasks[tid], PoolNow,
                                 IF Len(path) > 1 THEN path ELSE <<>>))
         /\ log' = AttemptLog("planned", tid, plan, out, path)

PlanAttempt(tid, start_node_id, goal_node_id, fault) ==
    /\ tid \in DOMAIN tasks
    /\ tasks[tid].status = "running"
    /\ tasks[tid].pc \in Planning
    /\ start_node_id \in tasks[tid].plan.nodes
    /\ goal_node_id \in tasks[tid].plan.nodes \ {start_node_id}
    /\ AttemptDone(tid, tasks[tid].plan,
                   AttemptOutcome(tasks[tid].plan.graph, start_node_id, goal_node_id,
                                  fault),
                   AttemptResult(tasks[tid].plan.graph, start_node_id, goal_node_id,
                                 fault))
    /\ UNCHANGED <<handler, env, simulation_task, agent_setter_task, disk, graphVars,
                   lightVars, num_agents, steps>>

PlanSteps == \E tid \in 1..MaxTasks, s, g \in WorldNodes, fault \in BOOLEAN :
                PlanAttempt(tid, s, g, fault)

\* A simulation started empty over the first grid square, grown by resize
\* requests one at a time while the viewport moves between that square and
\* its northern neighbour; every planning of the agent setter is taken attempt
\* by attempt.
NextPlan ==
    \/ /\ ~env
       /\ HandleStart(ViewA, 0, FALSE, "data", "fails", {CYCLE_LOW})
    \/ \E n \in 1..max_agents :
          /\ \A i \in DOMAIN tasks : tasks[i].kind = "setter" => tasks[i].status = "done"
          /\ HandleSetNumAgents(n)
    \/ \E tid \in 1..MaxTasks, removed \in SUBSET agents : SetterRun(tid, removed)
    \/ \E b \in {ViewA, ViewB} :
          HandleUpdateBounds(b, FALSE, "data", "fails", {CYCLE_LOW})
    \/ PlanSteps

\* asyncio resumes a coroutine once the thread it awaits has returned, and
\* nx.shortest_path returns on every finite graph
SpecPlan == Init /\ [][NextPlan]_vars /\ WF_vars(PlanSteps)

\* ---------------------------------------------------------------- agents moving
\* One simulation over the northern grid square, lights shown and no signal
\* found: the edge 3 -> 4 takes an agent three ticks, the edge 4 -> 5 one.
NextMove ==
    \/ \E n \in 1..max_agents :
          /\ ~env
          /\ HandleStart(ViewB, n, TRUE, "data", "fails", {CYCLE_LOW})
    \/ \E j \in EndAttempts, s, g \in WorldNodes : HandlerResume(j, s, g)
    \/ \E tid \in 1..MaxTasks, order \in Perms(active_agents) : SimTick(tid, order, 0)
    \/ \E tid \in 1..MaxTasks, j \in EndAttempts, s, g \in WorldNodes :
          TaskResume(tid, j, s, g)

SpecMove == Init /\ [][NextMove]_vars

\* The same with one agent and the square's signal found and shown.
NextRed ==
    \/ /\ ~env
       /\ HandleStart(ViewB, 1, TRUE, "data", "points", {CYCLE_LOW})
    \/ \E j \in EndAttempts, s, g \in WorldNodes : HandlerResume(j, s, g)
    \/ \E tid \in 1..MaxTasks, order \in Perms(active_agents) : SimTick(tid, order, 0)
    \/ \E tid \in 1..MaxTasks, j \in EndAttempts, s, g \in WorldNodes :
          TaskResume(tid, j, s, g)

SpecRed == Init /\ [][NextRed]_vars

\* ------------------------------------------------------------ a tick that raises
\* Simulations started over and again, with the lights shown or not, and
\* resized: with show_traffic_lights False the first tick raises.
NextFault ==
    \/ \E n \in 0..1, show \in BOOLEAN :
          HandleStart(ViewA, n, show, "data", "fails", {CYCLE_LOW})
    \/ HandleSetNumAgents(1)
    \/ Background

SpecFault == Init /\ [][NextFault]_vars

\* ------------------------------------------------------- incomplete requests
\* One simulation, resized, while the client also sends requests that lack
\* their required field.
NextReject ==
    \/ /\ ~env
       /\ HandleStart(ViewA, 1, TRUE, "data", "fails", {CYCLE_LOW})
    \/ HandleSetNumAgents(max_agents)
    \/ HandleStartWithoutBounds
    \/ HandleUpdateBoundsWithoutBounds
    \/ HandleSetNumAgentsWithoutCount
    \/ Background

SpecReject == Init /\ [][NextReject]_vars

\* ------------------------------------------------------------------ properties
Kinds == {"sim", "setter"}
TasksOf(kind) == {i \in DOMAIN tasks : tasks[i].kind = kind}
\* tasks that have not terminated
Alive(kind) == {i \in TasksOf(kind) : tasks[i].status # "done"}
\* tasks that have not terminated and whose cancel() was not called
Uncancelled(kind) == {i \in TasksOf(kind) : tasks[i].status = "running"}

\* C1 (as the code has it): in every reachable state of a session there is,
\* of each kind (tick loop, resize), at most one task that has neither
\* terminated nor had its cancellation requested; the handlers call cancel()
\* on the prior task and create the replacement without awaiting its end.
C1_OneUncancelledTaskPerKind ==
    \A kind \in Kinds : Cardinality(Uncancelled(kind)) <= 1

\* C1 witness: a resize task replaced while it was suspended in planning, its
\* cancellation requested and not yet delivered, next to its replacement
C1_Witness ==
    \E i \in TasksOf("setter") :
        /\ tasks[i].status = "cancelling"
        /\ tasks[i].pc = "adding"
        /\ agent_setter_task # i
        /\ agent_setter_task \in Uncancelled("setter")

\* C1 as stated: at most one not-yet-terminated tick-loop task and at most one
\* not-yet-terminated resize task in every reachable state
C1_OneAliveTaskPerKind ==
    \A kind \in Kinds : Cardinality(Alive(kind)) <= 1

\* the pool as the instance holds it: the agents in self.agents with their
\* fields, the positions they stand at, and the id counter
PoolView ==
    [agents |-> agents, active_agents |-> active_agents,
     next_agent_id |-> next_agent_id,
     state |-> [i \in agents |-> [objs[i] EXCEPT !.position = ArrayValue(arrays, @),
                                                 !.goal = ArrayValue(arrays, @)]]]

\* the steps a task takes
TaskOps == {"tick", "resume", "setter"}

\* C3: a step of a task that adds, removes or moves an agent of the instance
\* is a step of the task the session holds as its tick loop or its resize, and
\* cancel() was not called on that task: a task cancelled in favour of a
\* replacement changes the pool no more, so no two tasks of one kind change it.
C3_CancelledTaskChangesNothing ==
    [][(log'.op \in TaskOps /\ PoolView' # PoolView)
          => /\ log'.tid \in {simulation_task, agent_setter_task}
             /\ tasks[log'.tid].status = "running"]_vars

\* C3 witness: a resize cancelled in mid-growth has ended, and its replacement
\* has just gone on adding agents
C3_Witness ==
    /\ \E i \in TasksOf("setter") : tasks[i].pc = "cancelled" /\ i < agent_setter_task
    /\ log.op = "resume"
    /\ log.tid = agent_setter_task
    /\ Cardinality(agents) = max_agents

\* the session's tick loop rests between two ticks
TickLoopAtRest == simulation_task # 0 /\ tasks[simulation_task].pc = "sleep"

\* one resize(n) was requested, n >= 0, and its task has completed
OneResizeCompleted ==
    /\ Cardinality(TasksOf("setter")) = 1
    /\ tasks[agent_setter_task].pc = "done"
    /\ num_agents >= 0

\* C2 as stated: whatever the interleaving of the tick loop with one
\* resize(n) task, once the resize has completed and the tick in progress
\* has finished, the pool holds min(n, max_agents) agents.
C2_PoolSettlesAtTarget ==
    (OneResizeCompleted /\ TickLoopAtRest)
        => Cardinality(agents) = Min(num_agents, max_agents)

\* a step of a tick-loop task
TickStep == log'.op \in {"tick", "resume"} /\ tasks[log'.tid].kind = "sim"

\* C4: with no resize running, every step of a tick leaves the number of
\* agents in the pool as it was: an agent that reaches the end of its path is
\* removed and one fresh agent takes its place, so the size after any number
\* of ticks is the size before the first.
C4_TickKeepsPoolSize ==
    [][TickStep => /\ Cardinality(agents') = Cardinality(agents)
                   /\ next_agent_id' - next_agent_id = Cardinality(agents' \ agents)
                   /\ Cardinality(agents \ agents') = Cardinality(agents' \ agents)]_vars

\* C4 witness: a tick has just finished in which an agent reached its goal and
\* was replaced by a fresh one
C4_Witness ==
    /\ log.op = "resume"
    /\ TickLoopAtRest
    /\ 0 \notin agents
    /\ Cardinality(agents) = max_agents
    /\ TasksOf("setter") = {}

\* C5: the pool never holds more than max_agents agents, and a spawn at the
\* cap returns none and leaves the pool and the id counter as they were.
C5_SpawnRespectsCap ==
    /\ Cardinality(agents) <= max_agents
    /\ Cardinality(agents) >= max_agents => AddAgent(PoolNow) = [P |-> PoolNow, id |-> -1]

\* C5 witness: a resize beyond the cap has completed; its last spawn met a
\* full pool and handed out no id
C5_Witness ==
    /\ agent_setter_task # 0
    /\ tasks[agent_setter_task].pc = "done"
    /\ num_agents > max_agents
    /\ Cardinality(agents) = max_agents
    /\ next_agent_id = max_agents

\* a step of a resize task that grows the pool
GrowStep ==
    /\ log'.op \in {"setter", "resume"}
    /\ tasks[log'.tid].kind = "setter"
    /\ \/ tasks[log'.tid].pc = "adding"
       \/ tasks[log'.tid].pc = "new" /\ tasks[log'.tid].target > Cardinality(agents)

\* C6: a resize(n) with n above the pool size, run with nothing interleaved,
\* removes no agent, changes none but the one it is planning a path for, and
\* ends with min(n, max_agents) agents in the pool.
C6_GrowReachesTarget ==
    [][GrowStep =>
          /\ agents \subseteq agents'
          /\ \A i \in agents \ {tasks[log'.tid].plan.agent} :
                PoolView'.state[i] = PoolView.state[i]
          /\ tasks'[log'.tid].status = "done"
                => Cardinality(agents') = Min(num_agents', max_agents)]_vars

\* C6 witness: a resize that asked for more than the cap allows has grown the
\* pool from one agent to the cap
C6_Witness ==
    /\ agent_setter_task # 0
    /\ tasks[agent_setter_task].pc = "done"
    /\ log.op = "resume"
    /\ log.tid = agent_setter_task
    /\ num_agents = MaxRequest
    /\ agents = 0..(max_agents - 1)

\* a first step of a resize task that asks for fewer agents than there are
ShrinkStep ==
    /\ log'.op = "setter"
    /\ tasks[log'.tid].target < Cardinality(agents)

\* C7: a resize(n) with n below the pool size removes exactly current - n
\* agents of the pool, all of them when that exceeds the population, adds
\* none, and leaves every survivor's id, position, path and path_index alone.
C7_ShrinkRemovesExactly ==
    [][ShrinkStep =>
          /\ agents' \subseteq agents
          /\ Cardinality(agents \ agents')
                = Min(Cardinality(agents) - tasks[log'.tid].target, Cardinality(agents))
          /\ \A i \in agents' : PoolView'.state[i] = PoolView.state[i]
          /\ next_agent_id' = next_agent_id
          /\ tasks'[log'.tid].status = "done"]_vars

\* C7 witness: a resize has just removed one of two agents, the survivor
\* being under way on a path
C7_Witness ==
    /\ log.op = "setter"
    /\ Cardinality(log.removed) = 1
    /\ Cardinality(agents) = 1
    /\ \E i \in agents : objs[i].path # <<>>

Other(colour) == IF colour = "red" THEN "green" ELSE "red"

\* signal n, begun in colour `first` with timer 0, is where `steps` ticks
\* put it: `first` through its duration, the other colour through its own,
\* and so on with the period of the two
FollowsFrom(first, n) ==
    LET d1 == traffic_light_cycle_times[n][first]
        d2 == traffic_light_cycle_times[n][Other(first)]
        p == steps % (d1 + d2)
    IN  IF p < d1
        THEN traffic_light_states[n] = first /\ traffic_light_timers[n] = p
        ELSE traffic_light_states[n] = Other(first) /\ traffic_light_timers[n] = p - d1

\* C8: after k ticks a signal with durations {red: R, green: G} that began
\* red is red with timer k while k < R, green from tick R, red again from
\* tick R + G, and so on with period R + G (and likewise one that began
\* green); each signal follows its own durations whatever the others do.
C8_SignalFollowsItsCycle ==
    steps < MaxSteps =>
        \A n \in DOMAIN traffic_light_timers :
            FollowsFrom("red", n) \/ FollowsFrom("green", n)

\* C8 witness: two signals; the one with {red: 20, green: 30} is back at red
\* at tick 50, having turned green at tick 20
C8_Witness ==
    /\ steps = CYCLE_LOW + 30
    /\ Cardinality(DOMAIN traffic_light_timers) = 2
    /\ \E n \in DOMAIN traffic_light_timers :
          /\ traffic_light_cycle_times[n] = [red |-> CYCLE_LOW, green |-> 30]
          /\ traffic_light_states[n] = "red"
          /\ traffic_light_timers[n] = 0
          /\ FollowsFrom("red", n)
          /\ ~FollowsFrom("green", n)

\* C9 as stated: across a bounds update, every node that is a signal both
\* before and after it keeps its state, its timer and its cycle durations.
C9_UpdateKeepsSignalState ==
    [][log'.op = "update_bounds" =>
          \A n \in traffic_signals \cap traffic_signals' :
              n \in DOMAIN traffic_light_timers =>
                  /\ n \in DOMAIN traffic_light_timers'
                  /\ traffic_light_states'[n] = traffic_light_states[n]
                  /\ traffic_light_timers'[n] = traffic_light_timers[n]
                  /\ traffic_light_cycle_times'[n] = traffic_light_cycle_times[n]]_vars

\* C10 as stated: a load of a tile whose cache file exists, is not empty and
\* does not deserialize, refresh not forced, goes on to call the provider.
C10_CorruptCacheFallsBackToFetch ==
    [][(/\ log'.op \in {"start", "update_bounds"}
        /\ log'.op = "update_bounds" => MustLoad(tile_graphs, TileKey(bounds'))
        /\ CacheUsable(disk, TileKey(bounds'))
        /\ disk[TileKey(bounds')].kind = "corrupt")
          => log'.fetched]_vars

\* C11 as stated: whatever the provider call or the processing after it does,
\* short of reporting no data, the tile load returns "no tile": no exception
\* leaves it to end the construction of a simulation or a bounds update.
C11_NoExceptionLeavesLoad ==
    log.op \notin {"start_raised", "update_bounds_raised"}

\* C12: a bounds update that requires a tile held in memory as "no tile" loads
\* it again; a load that ends in "no tile" leaves the cache directory as it
\* was; and when the provider is asked again and answers, the nodes and edges
\* of the tile it gives are in the merged graph.
C12_NoTileIsRetried ==
    [][log'.op = "update_bounds" =>
          /\ (/\ TileKey(bounds') \in DOMAIN tile_graphs
              /\ tile_graphs[TileKey(bounds')].status = "none")
                => /\ log'.loaded
                   /\ ~CacheUsable(disk, TileKey(bounds')) => log'.fetched
          /\ (log'.loaded /\ tile_graphs'[TileKey(bounds')].status = "none")
                => disk' = disk
          /\ (log'.fetched /\ tile_graphs'[TileKey(bounds')].status = "data")
                => /\ tile_graphs'[TileKey(bounds')].nodes \subseteq drive_graph_proj'.nodes
                   /\ tile_graphs'[TileKey(bounds')].edges \subseteq drive_graph_proj'.edges
                   /\ tile_graphs'[TileKey(bounds')].nodes \subseteq DOMAIN node_positions']_vars

\* C12 witness: the only tile the instance ever asked for, "no tile" after the
\* start, has been fetched by a bounds update and its nodes are in the graph
C12_Witness ==
    /\ log.op = "update_bounds"
    /\ log.fetched
    /\ DOMAIN tile_graphs = {TileKey(bounds)}
    /\ tile_graphs[TileKey(bounds)].status = "data"
    /\ drive_graph_proj.nodes # {}

\* a step that called _load_tile_graph for the tile of the new bounds
TileLoadStep == log'.op \in {"start", "update_bounds"} /\ log'.loaded

\* C13: a load in which the provider reports no data leaves an empty tile in
\* the cache directory under the tile's key and returns the empty tile; a
\* later load of that key, in this or a new instance, returns the empty tile
\* from the file and does not ask the provider.
C13_EmptyTileShortCircuits ==
    [][TileLoadStep =>
          /\ (/\ log'.fetched
              /\ TileKey(bounds') \in DOMAIN disk'
              /\ disk'[TileKey(bounds')] = TileFile({}, {}))
                => tile_graphs'[TileKey(bounds')] = TileData({}, {})
          /\ (/\ TileKey(bounds') \in DOMAIN disk
              /\ disk[TileKey(bounds')] = TileFile({}, {}))
                => /\ ~log'.fetched
                   /\ tile_graphs'[TileKey(bounds')] = TileData({}, {})
                   /\ disk' = disk]_vars

\* C13 witness: a second instance has started over a directory that holds
\* the empty tile an earlier fetch left, and took the tile from the file
C13_Witness ==
    /\ log.op = "start"
    /\ log.loaded
    /\ ~log.fetched
    /\ Len(tasks) >= 2
    /\ disk[TileKey(bounds)] = TileFile({}, {})
    /\ tile_graphs[TileKey(bounds)] = TileData({}, {})

\* C14: refresh not forced, a cache file that a load has written stays as it
\* is: no step writes it again, and a load of its key, in this or a new
\* instance, does not ask the provider.
C14_CacheFileWrittenOnce ==
    [][/\ \A key \in DOMAIN disk :
             disk[key].kind = "tile" => key \in DOMAIN disk' /\ disk'[key] = disk[key]
       /\ (/\ TileLoadStep
           /\ TileKey(bounds') \in DOMAIN disk
           /\ disk[TileKey(bounds')].kind = "tile")
             => ~log'.fetched /\ disk' = disk]_vars

\* C14 witness: the northern square's tile, fetched and written earlier in
\* the session, has been loaded by a later instance from its file
C14_Witness ==
    /\ log.op = "start"
    /\ log.loaded
    /\ ~log.fetched
    /\ bounds = ViewB
    /\ disk[TileKey(ViewB)] = TileFile(ProviderNodes(_get_required_tile_bounds(ViewB)),
                                       ProviderEdges(_get_required_tile_bounds(ViewB)))
    /\ tile_graphs[TileKey(ViewB)].nodes = {3, 4, 5}

\* C15 as stated: at every instant of a tile write, interrupted or not, the
\* file under a tile's final cache path is absent, what it was before, or the
\* complete serialized tile.
C15_NoPartialFileUnderFinalName ==
    [][\A key \in DOMAIN disk' :
          \/ key \in DOMAIN disk /\ disk'[key] = disk[key]
          \/ disk'[key].kind = "tile"]_vars

\* the nodes and the edges of all the tiles held in memory
HeldNodes == UNION {tile_graphs[k].nodes : k \in DOMAIN tile_graphs}
HeldEdges == UNION {tile_graphs[k].edges : k \in DOMAIN tile_graphs}

\* C16 as stated: after the initial load and after every bounds update the
\* merged graph, the node-position index and the valid-node set are the union
\* over the tiles held in memory.
C16_MergeCoversHeldTiles ==
    log.op \in {"start", "update_bounds"} =>
        /\ drive_graph_proj.nodes = HeldNodes
        /\ drive_graph_proj.edges = HeldEdges
        /\ DOMAIN node_positions = HeldNodes
        /\ valid_vehicle_node_ids = HeldNodes

\* C17 as stated: snapping (clamp, then floor and ceil to the grid, then at
\* least one grid step) applied to its own result gives that result back.
C17_SnapIdempotent ==
    log.op = "resnap" => log.snapped = log.input

\* C18 as stated: the bounds clamp-then-snap produces for a viewport have, on
\* each axis, min below max and a span of at most max_zoom.
C18_SnappedSpanWithinMaxZoom ==
    log.op = "snap" =>
        /\ log.snapped.minLat < log.snapped.maxLat
        /\ log.snapped.minLng < log.snapped.maxLng
        /\ log.snapped.maxLat - log.snapped.minLat <= max_zoom
        /\ log.snapped.maxLng - log.snapped.minLng <= max_zoom

Coordinates == {"minLat", "maxLat", "minLng", "maxLng"}

\* x with the digits after its 4th decimal place dropped
Digits4(x) == <<Sign(x), Abs(x) \div 25047>>

\* x and y are of one sign and less than half a step (0.00005 degree) from
\* one grid point of the 4th decimal place
NearOneGridPoint(x, y) ==
    /\ (x < 0) = (y < 0)
    /\ \E k \in {x \div 25047, x \div 25047 + 1} :
          2 * Abs(x - 25047 * k) < 25047 /\ 2 * Abs(y - 25047 * k) < 25047

\* C19 (as the code has it): two bounds whose corresponding coordinates are
\* of one sign and round to one value at the 4th decimal place have the same
\* tile key.
C19_NearGridPointSameKey ==
    log.op = "keys" =>
        ((\A c \in Coordinates : NearOneGridPoint(log.b1[c], log.b2[c]))
            => log.key1 = log.key2)

\* C19 witness: two bounds that differ, beyond the 4th decimal place and on
\* either side of a grid point, and have one key
C19_Witness ==
    /\ log.op = "keys"
    /\ log.b1.minLat = 25047 - 1
    /\ log.b2.minLat = 25047 + 12523
    /\ log.b1.minLng # log.b2.minLng
    /\ \A c \in Coordinates : NearOneGridPoint(log.b1[c], log.b2[c])
    /\ log.key1 = log.key2

\* C19 as stated: two bounds whose coordinates agree in every digit up to and
\* including the 4th decimal place have the same tile key.
C19_SameDigitsSameKey ==
    log.op = "keys" =>
        ((\A c \in Coordinates : Digits4(log.b1[c]) = Digits4(log.b2[c]))
            => log.key1 = log.key2)

\* task tid is suspended in the planning of agent a
PlansFor(tid, a) ==
    /\ tid \in DOMAIN tasks
    /\ tasks[tid].pc \in Planning
    /\ tasks[tid].plan.agent = a

\* a step of the attempt loop
AttemptStep == log'.op \in {"attempt", "planned"} /\ log' # log

\* C20: a planning ends within PLAN_ATTEMPTS (20) attempts whatever the graph.
\* An attempt that ends in no path, node not found or another exception is
\* counted and changes nothing else while attempts remain; an attempt that
\* yields a path of two nodes or more ends the loop with that path, which
\* becomes the agent's path if each of its nodes still has a position (the
\* viewport may have moved meanwhile) and is dropped if not; the 20th failure
\* ends the loop and leaves the agent without a path. Every planning under
\* way comes to its end.
C20_PlanEndsWithinBudget ==
    /\ [][AttemptStep =>
            /\ log'.attempt = AttemptOf(tasks[log'.tid].plan)
            /\ log'.attempt \in 1..PLAN_ATTEMPTS
            /\ IF Len(log'.path) > 1
               THEN /\ log'.op = "planned"
                    /\ objs'[log'.agent].path =
                          IF \A i \in 1..Len(log'.path) : log'.path[i] \in DOMAIN node_positions
                          THEN log'.path ELSE <<>>
               ELSE /\ log'.outcome \in {"NetworkXNoPath", "NodeNotFound", "Exception"}
                    /\ IF log'.attempt < PLAN_ATTEMPTS
                       THEN /\ log'.op = "attempt"
                            /\ poolVars' = poolVars
                            /\ tasks'[log'.tid].pc \in Planning
                            /\ tasks'[log'.tid].plan.agent = log'.agent
                            /\ AttemptOf(tasks'[log'.tid].plan) = log'.attempt + 1
                       ELSE /\ log'.op = "planned"
                            /\ objs'[log'.agent].path = <<>>]_vars
    /\ []<>(\A tid \in DOMAIN tasks : tasks[tid].pc \notin Planning)

\* C20 witness: the 20th attempt of a planning failed as the 19 before it,
\* and the agent is left without a path
C20_Witness ==
    /\ log.op = "planned"
    /\ log.attempt = PLAN_ATTEMPTS
    /\ log.outcome = "NodeNotFound"
    /\ log.agent \in agents
    /\ objs[log.agent].path = <<>>
    /\ ~PlansFor(log.tid, log.agent)

\* the step ends the planning of agent a
PlanningEnds(a) == log'.op \in {"resume", "reset", "planned"} /\ log'.agent = a

\* the snapshot a step of the tick loop goes through: list(active_agents) of
\* a tick, the rest of it when the loop is resumed
Snapshot ==
    IF log'.op = "tick" THEN log'.order
    ELSE IF log'.op = "resume" /\ tasks[log'.tid].kind = "sim" THEN log'.queue
    ELSE <<>>

\* how many ids of the snapshot the step got to
Processed == Len(Snapshot) - Len(tasks'[log'.tid].queue)

Stepped ==
    {Snapshot[i] : i \in {j \in 1..Len(Snapshot) :
                            /\ j <= Processed
                            /\ Snapshot[j] \in agents
                            /\ objs[Snapshot[j]].path # <<>>}}

\* agent a's edge, the nodes at its ends, what is left of it and the most a
\* tick covers of it, as the step finds them
NextNode(a) == objs[a].path[objs[a].path_index + 2]
EdgeOf(a) == <<objs[a].path[objs[a].path_index + 1], NextNode(a)>>
OnEdge(a) ==
    /\ objs[a].path_index + 2 <= Len(objs[a].path)
    /\ EdgeOf(a) \in drive_graph_proj.edges
    /\ EdgeOf(a)[1] \in DOMAIN node_positions
    /\ EdgeOf(a)[2] \in DOMAIN node_positions
PositionOf(a) == ArrayValue(arrays, objs[a].position)
Remaining(a) ==
    Abs(arrays[node_positions[NextNode(a)]][1] - PositionOf(a)[1])
    + Abs(arrays[node_positions[NextNode(a)]][2] - PositionOf(a)[2])
MaxStep(a) == MaxSpeedDegrees(SpeedLimitKph(WorldSpeedKph(EdgeOf(a))))

\* C22: an agent the tick takes along its edge lands on the next node's
\* stored position and its path_index goes up by one if what is left of the
\* edge is less than the tick's largest step; if not, its position changes
\* by its velocity and its path_index stays.
C22_KinematicSnap ==
    [][\A a \in Stepped :
            (OnEdge(a) /\ a \in DOMAIN objs') =>
                IF Remaining(a) < MaxStep(a)
                THEN /\ ArrayValue(arrays', objs'[a].position)
                            = arrays'[node_positions[NextNode(a)]]
                     /\ objs'[a].path_index = objs[a].path_index + 1
                ELSE /\ ArrayValue(arrays', objs'[a].position)
                            = <<PositionOf(a)[1] + objs'[a].velocity[1],
                                PositionOf(a)[2] + objs'[a].velocity[2]>>
                     /\ objs'[a].path_index = objs[a].path_index]_vars

\* C23: an agent the tick takes along its edge towards a signal node whose
\* light is red once the tick has advanced the lights has velocity zero after
\* the tick.
C23_RedLightStop ==
    [][\A a \in Stepped :
            (/\ OnEdge(a)
             /\ a \in DOMAIN objs'
             /\ NextNode(a) \in traffic_signals
             /\ NextNode(a) \in DOMAIN traffic_light_states'
             /\ traffic_light_states'[NextNode(a)] = "red")
            => objs'[a].velocity = <<0, 0>>]_vars

\* C23 witness: an agent that has moved along the edge 3 -> 4 is stopped by
\* a tick in which the light at node 4 is red
C23_Witness ==
    /\ log.op = "tick"
    /\ 4 \in traffic_signals
    /\ 4 \in DOMAIN traffic_light_states
    /\ traffic_light_states[4] = "red"
    /\ \E a \in agents :
          /\ objs[a].path # <<>>
          /\ objs[a].path_index = 0
          /\ objs[a].path[2] = 4
          /\ ArrayValue(arrays, objs[a].position) # WorldPos(3)
          /\ ArrayValue(arrays, objs[a].position) # WorldPos(4)
          /\ objs[a].velocity = <<0, 0>>

\* C24: once the handler has left on a disconnect, no task of the session is
\* left uncancelled, and every later step is the delivery of a cancellation:
\* no tick (and with it no frame), no resumed planning, no resize, and the
\* pool, the lights and the tick count stay as they are.
C24_DisconnectCancelsBoth ==
    /\ [](handler.pc = "closed" => \A i \in DOMAIN tasks : tasks[i].status # "running")
    /\ [][handler.pc = "closed" =>
            /\ log'.op = "cancelled"
            /\ tasks'[log'.tid].status = "done"
            /\ tasks'[log'.tid].pc = "cancelled"
            /\ <<agents, active_agents, arrays, next_agent_id, num_agents, steps>>'
                  = <<agents, active_agents, arrays, next_agent_id, num_agents, steps>>
            /\ \A a \in agents : objs'[a] = objs[a]
            /\ lightVars' = lightVars]_vars

\* C24 witness: the client went while a tick loop and a resize were under
\* way; both have ended cancelled
C24_Witness ==
    /\ handler.pc = "closed"
    /\ \E i, j \in DOMAIN tasks :
          /\ tasks[i].kind = "sim" /\ tasks[i].pc = "cancelled" /\ i = simulation_task
          /\ tasks[j].kind = "setter" /\ tasks[j].pc = "cancelled" /\ j = agent_setter_task
    /\ \A i \in DOMAIN tasks : tasks[i].status = "done"
    /\ agents # {}

\* C25: a tick that raises ends its tick loop with one error event sent, and
\* changes nothing of the handler, the instance or the pool; the ended loop
\* takes no further step; the handler stays open, and a start that completes
\* afterwards leaves a new tick loop running on a new instance.
C25_TickErrorStopsLoopOnly ==
    /\ [](handler.pc # "closed")
    /\ [][/\ log'.op = "tick_raised" =>
               /\ log'.sent = <<"error">>
               /\ tasks'[log'.tid].status = "done"
               /\ tasks'[log'.tid].pc = "raised"
               /\ \A i \in DOMAIN tasks : i # log'.tid => tasks'[i] = tasks[i]
               /\ <<handler, env, simulation_task, agent_setter_task>>'
                     = <<handler, env, simulation_task, agent_setter_task>>
               /\ <<graphVars, agents, active_agents, objs, arrays, next_agent_id>>'
                     = <<graphVars, agents, active_agents, objs, arrays, next_agent_id>>
          /\ \A i \in DOMAIN tasks :
               tasks[i].pc = "raised" => tasks'[i] = tasks[i]
          /\ (/\ \E i \in DOMAIN tasks : tasks[i].pc = "raised"
              /\ log'.op \in {"start", "reset"}
              /\ handler'.pc = "recv")
             => /\ simulation_task' = Len(tasks) + 1
                /\ tasks'[simulation_task'].kind = "sim"
                /\ tasks'[simulation_task'].status = "running"
                /\ tasks'[simulation_task'].pc = "new"
                /\ env']_vars

\* C25 witness: a tick loop ended on an exception, and the tick loop of a
\* simulation started after it has ticked
C25_Witness ==
    /\ log.op = "tick"
    /\ log.tid = simulation_task
    /\ tasks[log.tid].status = "running"
    /\ handler.pc = "recv"
    /\ has_light_attrs
    /\ \E i \in 1..(log.tid - 1) : tasks[i].pc = "raised"

\* C26: a start or update_bounds request without bounds, or a set_num_agents
\* request without a count, is answered with one error event and changes
\* nothing: instance, bounds, graph, lights, pool and every task, cancelled
\* or not, are as they were.
C26_IncompleteRequestIgnored ==
    [][log'.op = "rejected" =>
          /\ log'.sent = <<"error">>
          /\ <<sessionVars, disk, graphVars, lightVars, poolVars>>'
                = <<sessionVars, disk, graphVars, lightVars, poolVars>>]_vars

\* C26 witness: a start without bounds was rejected while a tick loop and a
\* resize were under way, and both still are
C26_Witness ==
    /\ log.op = "rejected"
    /\ log.request = "start"
    /\ env
    /\ simulation_task # 0
    /\ tasks[simulation_task].status = "running"
    /\ agent_setter_task # 0
    /\ tasks[agent_setter_task].status = "running"
    /\ tasks[agent_setter_task].pc = "adding"
    /\ agents # {}

\* C27: on one instance every id in the pool is below next_agent_id, the
\* counter never goes down, and the agents a step adds get ids from the
\* counter's old value on: above every id handed out before, held or
\* removed. A start makes a new instance, whose counter begins at 0.
C27_AgentIdsFresh ==
    /\ [](agents \subseteq 0..(next_agent_id - 1))
    /\ [][IF log'.op = "start"
          THEN agents' \subseteq 0..(next_agent_id' - 1)
          ELSE /\ next_agent_id' >= next_agent_id
               /\ (agents' \ agents) \subseteq next_agent_id..(next_agent_id' - 1)]_vars

\* C27 witness: an agent arrived and was removed, and the agent that took
\* its place has a greater id; the removed id is not in the pool
C27_Witness ==
    /\ log.op \in {"tick", "resume"}
    /\ next_agent_id >= 2
    /\ \E a \in agents : \E b \in 0..(a - 1) : b \notin agents

\* C28: a tick, or the end of a planning, leaves every node of the index
\* with the position it had.
C28_StepsLeaveNodePositions ==
    [][log'.op \in {"tick", "resume", "reset"} =>
          \A n \in DOMAIN node_positions :
              /\ n \in DOMAIN node_positions'
              /\ arrays'[node_positions'[n]] = arrays[node_positions[n]]]_vars

\* C29: a step of the tick loop moves only agents of its snapshot whose turn
\* came in it. Every other agent of the pool (one whose turn is yet to come,
\* one inserted since the snapshot was taken) is where it was; an agent the
\* tick inserted is, once planned, on its start node with velocity zero and
\* path_index 0, and an id of the snapshot that is not in the pool is not
\* brought back.
C29_TickMovesSnapshotOnly ==
    [][(log'.op \in {"tick", "resume"} /\ tasks[log'.tid].kind = "sim") =>
          /\ \A a \in (agents \cap agents') \ Stepped :
                IF log'.op = "resume" /\ log'.agent = a
                THEN (tasks[log'.tid].pc = "add" /\ Len(log'.path) > 1) =>
                        /\ ArrayValue(arrays', objs'[a].position)
                              = arrays[node_positions[log'.path[1]]]
                        /\ objs'[a].velocity = <<0, 0>>
                        /\ objs'[a].path_index = 0
                ELSE /\ objs'[a] = objs[a]
                     /\ ArrayValue(arrays', objs'[a].position)
                           = ArrayValue(arrays, objs[a].position)
          /\ \A i \in 1..Len(Snapshot) :
                (i <= Processed /\ Snapshot[i] \notin agents) => Snapshot[i] \notin agents']_vars

\* C30: when the tile of the viewport's snapped bounds is held with data and
\* is not empty, the merged graph has its nodes.
C30_GraphCoversViewportTile ==
    (/\ env
     /\ TileKey(bounds) \in DOMAIN tile_graphs
     /\ tile_graphs[TileKey(bounds)].status = "data"
     /\ tile_graphs[TileKey(bounds)].nodes # {})
    => tile_graphs[TileKey(bounds)].nodes \subseteq drive_graph_proj.nodes

\* ------------------------------------------------------- the handler's end
\* One simulation, resized, whose viewport moves to tiles the provider may
\* raise on, until the client is gone or a request raises.
NextEnd ==
    \/ \E n \in 0..1 :
          /\ ~env
          /\ HandleStart(ViewA, n, TRUE, "data", "fails", {CYCLE_LOW})
    \/ \E b \in {ViewA, ViewB}, prov \in {"data", "raises"} :
          HandleUpdateBounds(b, TRUE, prov, "fails", {CYCLE_LOW})
    \/ HandleSetNumAgents(1)
    \/ HandleDisconnect
    \/ Background

SpecEnd == Init /\ [][NextEnd]_vars

\* C31: once the handler has ended, by a disconnect or by an error raised in
\* handling a request, no tick-loop task and no resize task takes a step.
C31_NoTaskOutlivesSession ==
    [][handler.pc = "closed" => log'.op \notin TaskOps]_vars

\* C32: in a simulation started with show_traffic_lights False, a tick does
\* not raise: it goes through the (empty) signal table and on to the agents.
C32_TickWithoutLightsCompletes ==
    [][(~show_traffic_lights /\ log'.op \in {"tick", "tick_raised"})
          => log'.op = "tick"]_vars

\* One agent over the first grid square, the square's signal (at node 2)
\* found and shown: the edge 1 -> 2 is shorter than one tick's step.
NextRedNear ==
    \/ /\ ~env
       /\ HandleStart(ViewA, 1, TRUE, "data", "points", {CYCLE_LOW})
    \/ \E j \in EndAttempts, s, g \in WorldNodes : HandlerResume(j, s, g)
    \/ \E tid \in 1..MaxTasks, order \in Perms(active_agents) : SimTick(tid, order, 0)
    \/ \E tid \in 1..MaxTasks, j \in EndAttempts, s, g \in WorldNodes :
          TaskResume(tid, j, s, g)

SpecRedNear == Init /\ [][NextRedNear]_vars

\* C33: an agent the tick takes along its edge towards a signal node whose
\* light is red once the tick has advanced the lights does not enter the
\* node: it stays in the pool where it was, with the path_index it had.
C33_RedLightKeepsAgentOut ==
    [][\A a \in Stepped :
            (/\ OnEdge(a)
             /\ NextNode(a) \in traffic_signals
             /\ NextNode(a) \in DOMAIN traffic_light_states'
             /\ traffic_light_states'[NextNode(a)] = "red")
            => /\ a \in agents'
               /\ ArrayValue(arrays', objs'[a].position) = PositionOf(a)
               /\ objs'[a].path_index = objs[a].path_index]_vars

\* --------------------------------------------------------- agents that stall
\* the steps of the tick loop: a tick, and the end of a planning
TickLoopSteps ==
    \/ \E tid \in 1..MaxTasks, order \in Perms(active_agents) : SimTick(tid, order, 0)
    \/ \E tid \in 1..MaxTasks, j \in EndAttempts, s, g \in WorldNodes :
          TaskResume(tid, j, s, g)

\* One agent over the first grid square, signals found and shown, while the
\* viewport moves between that square and its northern neighbour.
NextStall ==
    \/ /\ ~env
       /\ HandleStart(ViewA, 1, TRUE, "data", "points", {CYCLE_LOW})
    \/ \E j \in EndAttempts, s, g \in WorldNodes : HandlerResume(j, s, g)
    \/ \E b \in {ViewA, ViewB} : HandleUpdateBounds(b, TRUE, "data", "points", {CYCLE_LOW})
    \/ TickLoopSteps

\* a planning handed to a thread (asyncio.to_thread, traffic.py:751) comes
\* back: the coroutine that awaits it is resumed
PlanningReturns ==
    \E tid \in 1..MaxTasks, j \in EndAttempts, s, g \in WorldNodes :
        TaskResume(tid, j, s, g)

SpecStall == Init /\ [][NextStall]_vars /\ WF_vars(PlanningReturns)

\* agent a is in the pool with a path, at the first edge of it
AtFirstEdge(a) == a \in agents /\ objs[a].path # <<>> /\ objs[a].path_index = 0

\* C34: while ticks keep occurring, no agent of the pool keeps a path and one
\* path_index for ever: it gets on along its path, or is planned anew, or is
\* replaced. Stated of the first agent of the pool at the first edge of its
\* path. That ticks keep occurring is seen at the timer of the northern
\* square's signal, which every tick counts up or sets back to 0: it is 0
\* again and again, and 1 again and again.
C34_NoAgentStallsForever ==
    (/\ []<>(4 \in DOMAIN traffic_light_timers /\ traffic_light_timers[4] = 0)
     /\ []<>(4 \in DOMAIN traffic_light_timers /\ traffic_light_timers[4] = 1))
        => ~<>[]AtFirstEdge(0)

\* the nodes with an entry in each part of the signal table; none while the
\* tables were never created
StateEntries == IF has_light_attrs THEN DOMAIN traffic_light_states ELSE {}
TimerEntries == IF has_light_attrs THEN DOMAIN traffic_light_timers ELSE {}
CycleEntries == IF has_light_attrs THEN DOMAIN traffic_light_cycle_times ELSE {}

\* C35: once a simulation is constructed, the signal table has a state, a
\* timer and cycle lengths for every node of traffic_signals and for no
\* other node.
C35_SignalTableMatchesSignals ==
    env => /\ StateEntries = traffic_signals
           /\ TimerEntries = traffic_signals
           /\ CycleEntries = traffic_signals

\* ------------------------------------------------ ticks, resizes and moves
\* One simulation over the northern grid square, whose paths have up to three
\* nodes, resized once while its viewport moves to the first grid square and
\* the tick loop runs.
NextRange ==
    \/ /\ ~env
       /\ HandleStart(ViewB, 1, TRUE, "data", "fails", {CYCLE_LOW})
    \/ /\ agent_setter_task = 0
       /\ HandleSetNumAgents(max_agents)
    \/ HandleUpdateBounds(ViewA, TRUE, "data", "fails", {CYCLE_LOW})
    \/ \E j \in EndAttempts, s, g \in WorldNodes : HandlerResume(j, s, g)
    \/ \E tid \in 1..MaxTasks, removed \in SUBSET agents : SetterRun(tid, removed)
    \/ TickLoopSteps

SpecRange == Init /\ [][NextRange]_vars

\* C36: an agent of the pool that has a path has one of at least two nodes
\* and stands before its last node, so the tick that takes it up reads
\* path[path_index] and path[path_index + 1] inside the path; no tick finds
\* an agent at the end of its path (traffic.py:682) and falls through.
C36_PathIndexInRange ==
    /\ \A a \in agents :
          objs[a].path # <<>>
             => /\ Len(objs[a].path) >= 2
                /\ 0 <= objs[a].path_index
                /\ objs[a].path_index <= Len(objs[a].path) - 2
    /\ \A tid \in DOMAIN tasks : tasks[tid].pc # "add_at_end"

\* C36 witness: a tick has left an agent at the last edge of a path of three
\* nodes, in a pool a resize has worked on and after the viewport moved
C36_Witness ==
    /\ log.op = "tick"
    /\ \E tid \in DOMAIN tasks : tasks[tid].kind = "setter" /\ tasks[tid].pc = "done"
    /\ bounds = ClampBounds(ViewA)
    /\ \E a \in agents :
          /\ Len(objs[a].path) = 3
          /\ objs[a].path_index = 1

\* a step of a tick loop: a tick run to its frame or to a planning, a tick
\* that raises, or a tick resumed from a planning
TickLoopActs ==
    /\ log'.op \in {"tick", "tick_raised", "resume"}
    /\ tasks[log'.tid].kind = "sim"

\* C37: from a 'stop' request on, and until a 'start' request has made a new
\* tick loop, the session holds no tick loop (simulation_task is None) and no
\* tick loop takes a step: no tick is run and no update frame is sent.
C37_NoTickAfterStop ==
    /\ [][log'.op = "stop" => simulation_task' = 0]_vars
    /\ [][simulation_task = 0 => ~TickLoopActs]_vars

\* C37 witness: a simulation with agents was stopped, and the cancellation
\* has reached its tick loop; the handler is receiving again
C37_Witness ==
    /\ log.op = "cancelled"
    /\ tasks[log.tid].kind = "sim"
    /\ simulation_task = 0
    /\ handler.pc = "recv"
    /\ agents # {}

====
